---- MODULE Spec2Model ----
(***************************************************************************)
(* Model of the fleet coordinator (internal/nexus Manager: Status and      *)
(* ExecuteOnNexus) on top of the remote host handle (internal/server       *)
(* SSHServer: Execute, HealthCheck, GetResources).                         *)
(*                                                                         *)
(* One behaviour is one coordinator call.  The main goroutine, the closer  *)
(* goroutine and one goroutine per member host are separate processes; a   *)
(* step of the model is one step of one goroutine, or one event of the     *)
(* environment (the caller cancels the context, a remote command ends).    *)
(***************************************************************************)
EXTENDS Integers, Sequences, FiniteSets, TLC

\* Largest number of member hosts of the nexus.
MaxMembers == 2

(***************************************************************************)
(* Values                                                                  *)
(***************************************************************************)

\* Go's nil error, nil *pkg.Result / *pkg.ResourceInfo, and an empty chan.
NoErr == "<nil>"
NilResult == [nil |-> TRUE]
Empty == [empty |-> TRUE]
EmptyMap == [k \in {} |-> NilResult]

\* m[k] = v on a Go map.
Put(m, k, v) == [x \in (DOMAIN m) \cup {k} |-> IF x = k THEN v ELSE m[x]]

\* ctx.Err() after cancel() and after the deadline.
CtxErrors == {"context canceled", "context deadline exceeded"}

(***************************************************************************)
(* Configuration (config.Config as loaded by LoadConfig)                   *)
(***************************************************************************)

\* config.Servers: name -> {host, ssh_user}.  validateConfig requires both
\* to be non-empty and nothing else about them.
ConfigServers ==
    [web   |-> [Host |-> "app-db", SSHUser |-> "admin"],
     db    |-> [Host |-> "app",    SSHUser |-> "db-admin"],
     cache |-> [Host |-> "cache",  SSHUser |-> "admin"]]

ServerNames == DOMAIN ConfigServers

\* The nexus of the configuration, and the names a caller may pass.
ConfiguredNexus == "prod"

\* A second nexus of the configuration, whose member list names a server
\* that config.Servers does not have.  validateConfig checks the references
\* when the file is loaded; GetConfig hands out the *Config, and Get and
\* GetNexusServers test for the missing server on every call.
BrokenNexus == "edge"
BrokenServers == << "web", "ghost" >>

\* config.Nexuses has these keys; "staging" is a name it lacks.
ConfigNexusNames == {ConfiguredNexus, BrokenNexus}
NexusNames == {"prod", "staging", "edge"}

\* Member lists of a nexus: validateConfig requires at least one server and
\* that config.Servers has each of them.  A server may be listed twice, and
\* in any order.
MemberLists == UNION { [1..n -> ServerNames] : n \in 1..MaxMembers }

(***************************************************************************)
(* Text helpers (strings.TrimSpace, strings.Split, strings.Fields)         *)
(***************************************************************************)

\* The texts of the model are ASCII.  A character outside printable ASCII
\* other than "\n", "\t", "\r" and "\f" is written as the six characters
\* \uXXXX of its code point (the ten characters \UXXXXXXXX beyond
\* U+FFFF), as Go writes it in a string literal ("health_check\u00A0\n");
\* no text of the model holds a backslash of its own.

\* unicode.IsSpace beyond "\t", "\n", "\f", "\r" and " ": U+000B, U+0085 and
\* U+00A0 of Latin-1, and the characters of the White_Space property.
WideSpace ==
    {"\\u000B", "\\u0085", "\\u00A0", "\\u1680", "\\u2000", "\\u2001",
     "\\u2002", "\\u2003", "\\u2004", "\\u2005", "\\u2006", "\\u2007",
     "\\u2008", "\\u2009", "\\u200A", "\\u2028", "\\u2029", "\\u202F",
     "\\u205F", "\\u3000"}

\* unicode.IsSpace: the white space of strings.TrimSpace and strings.Fields.
Space == {" ", "\n", "\t", "\r", "\f"} \cup WideSpace

\* How many characters of the text the white-space character that starts
\* at s[i] takes: 0 when none starts there.
SpaceAt(s, i) ==
    IF i <= Len(s) /\ SubSeq(s, i, i) \in Space THEN 1
    ELSE IF i + 5 <= Len(s) /\ SubSeq(s, i, i + 5) \in Space THEN 6
    ELSE 0

\* The same for the white-space character that ends at s[i].
SpaceEndingAt(s, i) ==
    IF i >= 6 /\ SubSeq(s, i - 5, i) \in Space THEN 6
    ELSE IF i >= 1 /\ SubSeq(s, i, i) \in Space THEN 1
    ELSE 0

RECURSIVE TrimLeft(_)
TrimLeft(s) ==
    IF SpaceAt(s, 1) > 0
    THEN TrimLeft(SubSeq(s, SpaceAt(s, 1) + 1, Len(s)))
    ELSE s

RECURSIVE TrimRight(_)
TrimRight(s) ==
    IF SpaceEndingAt(s, Len(s)) > 0
    THEN TrimRight(SubSeq(s, 1, Len(s) - SpaceEndingAt(s, Len(s))))
    ELSE s

\* strings.TrimSpace(s).
TrimSpace(s) == TrimRight(TrimLeft(s))

\* strings.Split(s, "\n"): always at least one element.
RECURSIVE SplitFrom(_, _, _)
SplitFrom(s, start, i) ==
    IF i > Len(s) THEN << SubSeq(s, start, Len(s)) >>
    ELSE IF SubSeq(s, i, i) = "\n"
         THEN << SubSeq(s, start, i - 1) >> \o SplitFrom(s, i + 1, i + 1)
         ELSE SplitFrom(s, start, i + 1)

SplitLines(s) == SplitFrom(s, 1, 1)

\* strings.Fields(s): maximal runs of non-space characters.
RECURSIVE FieldsFrom(_, _, _)
FieldsFrom(s, start, i) ==
    IF i > Len(s)
    THEN IF start <= Len(s) THEN << SubSeq(s, start, Len(s)) >> ELSE << >>
    ELSE IF SpaceAt(s, i) > 0
         THEN (IF start < i THEN << SubSeq(s, start, i - 1) >> ELSE << >>)
              \o FieldsFrom(s, i + SpaceAt(s, i), i + SpaceAt(s, i))
         ELSE FieldsFrom(s, start, i + 1)

Fields(s) == FieldsFrom(s, 1, 1)

(***************************************************************************)
(* Remote commands: what session.Run reports for a command                 *)
(***************************************************************************)

\* What session.Run returned, with the output captured by then:
\*   err = "nil"    the command exited with status 0
\*   err = "exit"   *ssh.ExitError carrying the exit status
\*   err = "other"  any other error (the transport failed under the command)
Ran(err, status, text, stdout, stderr) ==
    [err |-> err, status |-> status, text |-> text,
     stdout |-> stdout, stderr |-> stderr, ms |-> 7]

\* The probes of GetResources, in the order it issues them.
Probes == << "nproc", "top", "model", "arch", "free", "df", "loadavg" >>

GoodOutput(call) ==
    CASE call = "exec"    -> "done\n"
      [] call = "health"  -> "health_check\n"
      [] call = "nproc"   -> "4\n"
      [] call = "top"     -> "12.5\n"
      [] call = "model"   -> "cpu\n"
      [] call = "arch"    -> "x86_64\n"
      [] call = "free"    -> "h\nMem: 8 2 1 0 1 5\n"
      [] call = "df"      -> "h\n/dev/sda1 9 3 6 34% /\n"
      [] call = "loadavg" -> "0.1 0.2 0.3 1/5 9\n"

\* The outcomes of the remote command of a call that the model explores.
RunOutcomes(call) ==
    CASE call = "exec" ->
            { Ran("nil", 0, "", GoodOutput(call), ""),
              Ran("exit", 2, "", "", "boom\n"),
              Ran("other", 0, "EOF", "", "") }
      [] call = "health" ->
            { Ran("nil", 0, "", GoodOutput(call), ""),
              Ran("nil", 0, "", "motd\n", ""),
              Ran("exit", 127, "", "", "sh: not found\n") }

(***************************************************************************)
(* SSHServer: the parts of Execute, HealthCheck and GetResources that      *)
(* compute a value                                                         *)
(***************************************************************************)

NotConnectedErr == "not connected to server"
SessionErr == "failed to create SSH session: " \o "EOF"

\* Variant of ExecuteResult: every error of session.Run gives ExitCode 1.
ExecuteResultExitOne(o) ==
    LET result == [ExitCode |-> 0, Stdout |-> o.stdout,
                   Stderr |-> o.stderr, Duration |-> o.ms]
    IN  IF o.err = "nil" THEN result
        ELSE [result EXCEPT !.ExitCode = 1,
                            !.Stderr = IF result.Stderr = "" THEN o.text
                                       ELSE result.Stderr]

\* Execute, the branch `case err := <-done`: the result built from what
\* session.Run returned.
ExecuteResult(o) ==
    LET result == [ExitCode |-> 0, Stdout |-> o.stdout,
                   Stderr |-> o.stderr, Duration |-> o.ms]
    IN  IF o.err = "nil" THEN result
        ELSE IF o.err = "exit" THEN [result EXCEPT !.ExitCode = o.status]
        ELSE [result EXCEPT !.ExitCode = 1,
                            !.Stderr = IF result.Stderr = "" THEN o.text
                                       ELSE result.Stderr]

\* Variant of HealthCheck: the output compared as it came.
HealthCheckUntrimmed(result, err) ==
    IF err # NoErr THEN "SSH connection failed: " \o err
    ELSE IF result.ExitCode # 0
         THEN "health check command failed with exit code "
              \o ToString(result.ExitCode)
    ELSE IF result.Stdout # "health_check\n"
         THEN "unexpected health check response: " \o result.Stdout
    ELSE NoErr

\* HealthCheck, after its Execute returned (result, err): the error it
\* returns, NoErr for nil.
HealthCheck(result, err) ==
    IF err # NoErr THEN "SSH connection failed: " \o err
    ELSE IF result.ExitCode # 0
         THEN "health check command failed with exit code "
              \o ToString(result.ExitCode)
    ELSE IF TrimSpace(result.Stdout) # "health_check"
         THEN "unexpected health check response: " \o result.Stdout
    ELSE NoErr

\* getCPUInfo / getMemoryInfo / getDiskInfo / getLoadInfo, after the Execute
\* of one probe returned (result, err): the error that ends GetResources,
\* NoErr when GetResources goes on to the next probe.
ProbeError(probe, result, err) ==
    CASE probe = "nproc" ->
            IF err # NoErr THEN "failed to get CPU info: " \o err ELSE NoErr
      [] probe \in {"top", "model", "arch"} -> NoErr
      [] probe = "free" ->
            IF err # NoErr THEN "failed to get memory info: " \o err
            ELSE IF Len(SplitLines(result.Stdout)) < 2
                 THEN "failed to get memory info: unexpected free command output"
            ELSE IF Len(Fields(SplitLines(result.Stdout)[2])) < 7
                 THEN "failed to get memory info: unexpected free command format"
            ELSE NoErr
      [] probe = "df" ->
            IF err # NoErr THEN "failed to get disk info: " \o err
            ELSE IF Len(SplitLines(result.Stdout)) < 2
                 THEN "failed to get disk info: unexpected df command output"
            ELSE IF Len(Fields(SplitLines(result.Stdout)[2])) < 4
                 THEN "failed to get disk info: unexpected df command format"
            ELSE NoErr
      [] probe = "loadavg" ->
            IF err # NoErr THEN "failed to get load info: " \o err
            ELSE IF Len(Fields(result.Stdout)) < 3
                 THEN "failed to get load info: unexpected loadavg format"
            ELSE NoErr

\* The snapshot GetResources returns when every probe went through.
Snapshot == [CPU |-> "cpu", Memory |-> "memory", Disk |-> "disk", Load |-> "load"]

\* GetResources over what the Execute of each probe returned, rets[k] being
\* the (result, err) of Probes[k]: the first probe error ends it.
RECURSIVE GetResourcesFrom(_, _)
GetResourcesFrom(rets, k) ==
    IF k > Len(Probes) THEN [info |-> Snapshot, err |-> NoErr]
    ELSE IF ProbeError(Probes[k], rets[k].result, rets[k].err) # NoErr
         THEN [info |-> NilResult,
               err |-> ProbeError(Probes[k], rets[k].result, rets[k].err)]
         ELSE GetResourcesFrom(rets, k + 1)

GetResources(rets) == GetResourcesFrom(rets, 1)

(***************************************************************************)
(* Manager: the parts of Status and ExecuteOnNexus that compute a value     *)
(***************************************************************************)

\* getServersForNexus: the id of the server built for one configured server.
ID(serverConfig) == serverConfig.Host \o "-" \o serverConfig.SSHUser

\* GetNexusServers: the error for a member list, for the first server of it
\* that config.Servers lacks.
GetNexusServersError(nexusName, servers) ==
    IF \E i \in 1..Len(servers) : servers[i] \notin ServerNames
    THEN LET i == CHOOSE k \in 1..Len(servers) :
                      /\ servers[k] \notin ServerNames
                      /\ \A j \in 1..(k - 1) : servers[j] \in ServerNames
         IN "server '" \o servers[i] \o "' referenced by nexus '"
                \o nexusName \o "' not found"
    ELSE NoErr

\* Variant of GetError: the servers of the nexus are not loaded.
GetErrorSkipsServers(nexusName) ==
    IF nexusName \notin ConfigNexusNames
    THEN "nexus '" \o nexusName \o "' not found"
    ELSE NoErr

\* Get: the error for a nexus name, NoErr when the nexus is configured and
\* its servers are.  The members of "prod" are configured servers.
GetError(nexusName) ==
    IF nexusName \notin ConfigNexusNames
    THEN "nexus '" \o nexusName \o "' not found"
    ELSE IF /\ nexusName = BrokenNexus
            /\ GetNexusServersError(nexusName, BrokenServers) # NoErr
    THEN "failed to load servers for nexus '" \o nexusName \o "': "
            \o GetNexusServersError(nexusName, BrokenServers)
    ELSE NoErr

\* GetCurrent: the error for the active nexus named by the runtime config.
GetCurrentError(current) ==
    IF current = "" THEN "no current nexus set" ELSE GetError(current)

\* The errors of os.UserHomeDir, of the open and of the write of
\* os.WriteFile, and of yaml.Unmarshal on a text that is not YAML.
HomeErr == "failed to get user home directory: $HOME is not defined"
OpenErr == "open /home/u/.mah/config.yaml: permission denied"
WriteErr == "write /home/u/.mah/config.yaml: no space left on device"
UnmarshalErr == "yaml: line 3: could not find expected ':'"

\* yaml.Marshal(m.runtime) for runtime.CurrentNexus = current: the first
\* and the last line of the text.  The lines between them (state_dir,
\* cache_dir, plugin_dir, log_level) are the same in every file and are
\* left out.
Marshal(current) ==
    "current_nexus: " \o (IF current = "" THEN "\"\"" ELSE current)
        \o "\nconfig_file: mah.yaml\n"

\* The values of current_nexus a runtime file may name.
FileNames == {""} \cup NexusNames

\* yaml.Unmarshal(data, runtime) on the defaults, in which
\* runtime.CurrentNexus is "": an empty text leaves them, a marshalled
\* runtime config gives its current_nexus, and any other text is an error.
Unmarshal(data) ==
    IF data = "" THEN [current |-> "", err |-> NoErr]
    ELSE IF \E n \in FileNames : data = Marshal(n)
    THEN [current |-> CHOOSE n \in FileNames : data = Marshal(n),
          err |-> NoErr]
    ELSE [current |-> "", err |-> UnmarshalErr]

\* The write of os.WriteFile: data goes to the start of the file as it is
\* then.  The file was emptied when this call opened it; what another call
\* has written since stays behind the end of data.
Overlay(file, data) == data \o SubSeq(file, Len(data) + 1, Len(file))

\* Variant of ErrorResult: the shell's failure status instead of the sentinel.
ErrorResultExitOne(err) ==
    [ExitCode |-> 1, Stdout |-> "", Stderr |-> err, Duration |-> 0]

\* ExecuteOnNexus, collecting loop: the result stored for a host whose
\* Execute returned the error err.
ErrorResult(err) == [ExitCode |-> -1, Stdout |-> "", Stderr |-> err, Duration |-> 0]

\* ExecuteOnNexus, collecting loop: the entry stored for one message.
CollectedResult(msg) ==
    IF msg.error # NoErr THEN ErrorResult(msg.error) ELSE msg.result

\* Variant of CollectedError: the assignment outside the `if`.
CollectedErrorLastWins(last, msg) == msg.error

\* ExecuteOnNexus, collecting loop: lastError after one message.
CollectedError(last, msg) == IF msg.error # NoErr THEN msg.error ELSE last

\* ExecuteOnNexus, after the loop: the error returned with the map.
SummaryError(last) ==
    IF last # NoErr
    THEN "command execution failed on some servers: " \o last
    ELSE NoErr

\* Variant of WaitReturns: the closer closes without waiting.
WaitReturnsAtOnce(counter) == TRUE

\* Variant of WaitReturns: wg.Wait() never returns.
WaitReturnsNever(counter) == FALSE

\* The closer goroutine: wg.Wait() returns when the counter is zero.
WaitReturns(counter) == counter = 0

\* Execute, `case <-ctx.Done()`: is the branch ready.
CtxDone(e) == e # NoErr

\* Variant of ExecuteCanceled: the return without session.Signal.
ExecuteCanceledNoKill(e) == [kill |-> FALSE, result |-> NilResult, err |-> e]

\* Execute, `case <-ctx.Done()`: the signal sent and the values returned.
ExecuteCanceled(e) == [kill |-> TRUE, result |-> NilResult, err |-> e]

(***************************************************************************)
(* State                                                                   *)
(***************************************************************************)

VARIABLES
    cfg,            \* config.Nexuses["prod"].Servers: the member list
    ctxErr,         \* ctx.Err(): NoErr until the caller cancels / times out
    op, name,       \* the coordinator call: which method, which nexus name
    pc,             \* main goroutine: idle, getcurrent, current, dispatch,
                    \* collect, done
    launched,       \* number of `go func(srv)` statements executed
    wg,             \* sync.WaitGroup counter
    closer,         \* closer goroutine: none, wait, done
    chan,           \* statusChan / resultChan: buffered messages, in order
    chanClosed,     \* close(chan) has happened
    tpc,            \* per host task: none, call, inc_read, inc_write,
                    \* resources, send, wgdone, done, panic
    tmsg,           \* per host task: the message it builds and sends
    treg,           \* per host task: value read by status.ServersOnline++
    serversOnline,  \* status.ServersOnline
    results,        \* results / status.ServerStatuses
    lastError,      \* ExecuteOnNexus: lastError
    ret,            \* what the call returned: [value, err]
    execCalls,      \* history: per host task, number of calls of srv.Execute
                    \* (ExecuteOnNexus) or srv.HealthCheck (Status)
    xret,           \* history: per host task, what that call returned
    chanFrom,       \* history: the host tasks that sent the messages in chan
    hc,             \* history: per host task, outcome of HealthCheck
    onlineWriters,  \* history: host tasks that wrote status.ServersOnline
    collected,      \* history: number of messages taken off the channel
    \* One SSHServer handle and the calls its owner makes on it, one at a time.
    sudoAllowed,    \* s.config.Sudo
    hclient,        \* s.client: 0 for nil, else the connection it runs on
    hconn,          \* s.conn: 0 for nil, else the connection
    live,           \* the connections that are open
    hcall,          \* the call in progress: [op, cmd, sudo]
    hpc,            \* idle, call (an Execute is to start), session (it waits
                    \* in NewSession), select
    hctx,           \* ctx.Err() of the context given to the call
    hdone,          \* Execute's `done` channel
    hkilled,        \* session.Signal(SIGKILL) was sent in this call
    hended,         \* history: the command had ended when ctx was canceled
    hran,           \* the command given to session.Run by the last Execute
    hout,           \* history: what session.Run gave the last Execute
    opened,         \* history: what this call opened: none, session, sftp
    dialed,         \* history: this call dialed the host
    hx,             \* history: what the call's last Execute returned
    hrets,          \* GetResources: what the Executes of its probes returned
    hret,           \* what the last call returned
    \* The nexus manager's lock and the active nexus.
    mu,             \* m.mu: free, or write (Lock is held)
    runtimeNexus,   \* configMgr.runtime.CurrentNexus
    runtimeFile,    \* the text of the file ~/.mah/config.yaml
    currentNexus,   \* m.currentNexus
    swpc,           \* Switch: idle, get, set, returned
    swname,         \* Switch: the name it was called with
    swbefore,       \* history: m.currentNexus when Switch was called
    swret,          \* what Switch returned
    cm,             \* the calls on the config manager, one per caller
    \* One capability set and the host it works on.
    dfamily,        \* debian, ubuntu, rocky: the type of the operations
    dop,            \* the operation called
    drules,         \* ConfigureFirewall: its rules argument
    dpc,            \* the Execute the operation is to make next; 0: none
    dlog,           \* history: the Executes of the call, how the code
                    \* tests each, and their outcomes
    dret,           \* what the operation returned
    sshdConfig,     \* the lines of /etc/ssh/sshd_config on the host
    sshdBackup,     \* the lines of /etc/ssh/sshd_config.backup
    sshdBefore,     \* history: sshdConfig when the operation was called
    \* The server factory, one host identity and the host behind it.
    fconfig,        \* the *config.Server given to the factory
    fconfig0,       \* history: fconfig before the first call
    fbefore,        \* history: fconfig when the call was made
    fhost,          \* the host: its /etc/os-release and its marker files
    fpc,            \* idle, connect, detect, disconnect, returned
    fret,           \* what the call returned: [server, err]
    fcalls,         \* history: number of calls made
    fwrites,        \* history: number of assignments to config.Distro
    fconnects,      \* history: number of Connect calls of this call
    fdetected,      \* history: what GetDistro returned in this call, and
                    \* which of its Executes had succeeded
    \* The server commands: validation, the dispatchers, initializeServer.
    vret,           \* what ValidateServerConfig returned: [err]
    pinfo,          \* what GetDistroInfo returned: [info, err]
    pdispatcher,    \* the dispatcher that was called, "" before the call
    pdistro,        \* the distro argument of that call
    pfirewall,      \* config.Firewall: Empty for nil
    ipc,            \* initializeServer: idle, health, update, docker,
                    \* firewall, ssh, auto, returned
    iret,           \* what initializeServer returned: [err]
    ilog            \* history: the steps run on the handle, with its state

\* The state of the coordinator call, and the state of the handle.
cvars == << cfg, ctxErr, op, name, pc, launched, wg, closer, chan,
            chanClosed, tpc, tmsg, treg, serversOnline,
            results, lastError, ret, execCalls, xret, chanFrom, hc,
            onlineWriters, collected >>

hvars == << sudoAllowed, hclient, hconn, live, hcall, hpc, hctx, hdone,
            hkilled, hended, hran, hout, opened, dialed, hx, hrets, hret >>

mvars == << mu, runtimeNexus, runtimeFile, currentNexus, swpc, swname,
            swbefore, swret, cm >>

\* The state of the components beside the coordinator call and the handle.
dvars == << dfamily, dop, drules, dpc, dlog, dret, sshdConfig, sshdBackup,
            sshdBefore >>

fvars == << fconfig, fconfig0, fbefore, fhost, fpc, fret, fcalls, fwrites,
            fconnects, fdetected >>

pvars == << vret, pinfo, pdispatcher, pdistro, pfirewall, ipc, iret, ilog >>

xvars == << mvars, dvars, fvars, pvars >>

vars == << cvars, hvars, xvars >>

N == Len(cfg)
Tasks == 1..N

\* nexus.Servers[i].ID()
ServerID(i) == ID(ConfigServers[cfg[i]])

\* No call in progress on the handle.
NoCall == [op |-> "none", cmd |-> "", sudo |-> FALSE]

\* NewSSHServer: a handle that has never been connected.
NewSSHServer ==
    /\ hclient = 0 /\ hconn = 0 /\ live = {}
    /\ hcall = NoCall /\ hpc = "idle" /\ hctx = NoErr
    /\ hdone = Empty /\ hkilled = FALSE /\ hended = FALSE
    /\ hran = "" /\ hout = Empty
    /\ opened = "none" /\ dialed = FALSE
    /\ hx = Empty /\ hrets = << >> /\ hret = Empty

\* NewManager over a config.Manager that has loaded the runtime file.
\* The callers of the config manager: the command that calls
\* SetCurrentNexus, the one that calls LoadRuntimeConfig, and Switch.
Callers == {"set", "load", "switch"}

\* A caller that has made no call.  pc: idle, store, read, assign, marshal,
\* open, write, returned; name: the argument of SetCurrentNexus; local: the
\* bytes os.ReadFile has read, then the current_nexus LoadRuntimeConfig
\* has read, then the text to write;
\* before (history): runtime.CurrentNexus when the call was made; stale:
\* m.runtime was replaced after SetCurrentNexus loaded it; err: what the
\* call returned.
NoConfigCall ==
    [pc |-> "idle", name |-> "", local |-> "", before |-> "",
     stale |-> FALSE, err |-> NoErr]

NewManager(current) ==
    /\ mu = "free"
    /\ runtimeNexus = current /\ runtimeFile = Marshal(current)
    /\ currentNexus = ""
    /\ swpc = "idle" /\ swname = "" /\ swret = Empty
    /\ swbefore = ""
    /\ cm = [c \in Callers |-> NoConfigCall]

\* No server command has been run.
ProvisionIdle ==
    /\ vret = Empty /\ pinfo = Empty /\ pdispatcher = "" /\ pdistro = ""
    /\ ipc = "idle" /\ iret = Empty /\ ilog = << >>

\* No server command is run, on a configuration without firewall section.
NoProvision == ProvisionIdle /\ pfirewall = Empty

\* A factory that is not used.
NoFactory ==
    /\ fconfig = Empty /\ fconfig0 = Empty /\ fbefore = Empty
    /\ fhost = Empty /\ fpc = "idle" /\ fret = Empty /\ fcalls = 0
    /\ fwrites = 0 /\ fconnects = 0 /\ fdetected = Empty

\* A capability set on which no operation is called.
NoDistroCall ==
    /\ dfamily = "debian"
    /\ dop = "" /\ drules = << >> /\ dpc = 0 /\ dlog = << >>
    /\ dret = Empty
    /\ sshdConfig = << >> /\ sshdBackup = << >> /\ sshdBefore = << >>

\* The coordinator before a call.
ManagerIdle ==
    /\ ctxErr = NoErr
    /\ op = "" /\ name = ""
    /\ pc = "idle"
    /\ launched = 0
    /\ wg = 0
    /\ closer = "none"
    /\ chan = << >>
    /\ chanClosed = FALSE
    /\ tpc = [i \in 1..Len(cfg) |-> "none"]
    /\ tmsg = [i \in 1..Len(cfg) |-> Empty]
    /\ treg = [i \in 1..Len(cfg) |-> 0]
    /\ serversOnline = 0
    /\ results = EmptyMap
    /\ lastError = NoErr
    /\ ret = Empty
    /\ execCalls = [i \in 1..Len(cfg) |-> 0]
    /\ xret = [i \in 1..Len(cfg) |-> Empty]
    /\ chanFrom = << >>
    /\ hc = [i \in 1..Len(cfg) |-> "pending"]
    /\ onlineWriters = {}
    /\ collected = 0

Init ==
    /\ sudoAllowed = FALSE
    /\ NewSSHServer
    /\ NewManager("")
    /\ NoDistroCall
    /\ NoFactory
    /\ NoProvision
    /\ cfg \in MemberLists
    /\ ManagerIdle

(***************************************************************************)
(* mockServer: the pkg.Server that getServersForNexus builds                *)
(***************************************************************************)

\* mockServer.Execute(ctx, cmd, sudo): the same result for every command,
\* whatever ctx is.
MockExecute(cmd, sudo) ==
    [result |-> [ExitCode |-> 0, Stdout |-> "mock output", Stderr |-> "",
                 Duration |-> 0],
     err |-> NoErr]

\* mockServer.HealthCheck(ctx)
MockHealthCheck == NoErr

\* mockServer.GetResources(ctx).  The byte counts are written in decimal.
MockGetResources ==
    [info |-> [CPU |-> [Cores |-> 4, Usage |-> 25],
               Memory |-> [Total |-> "8000000000", Used |-> "2000000000",
                           Usage |-> 25]],
     err |-> NoErr]

\* The command and the sudo flag a caller gives to ExecuteOnNexus.
CallCommand == "uptime"
CallSudo == FALSE

(***************************************************************************)
(* Host tasks                                                              *)
(***************************************************************************)

\* Variant of AfterExecute: an Execute that returned an error is called a
\* second time.
AfterExecuteRetry(i, result, err) ==
    IF err # NoErr /\ execCalls[i] < 2
    THEN [pc |-> "call", hc |-> hc[i], msg |-> tmsg[i]]
    ELSE [pc |-> "send", hc |-> hc[i],
          msg |-> [serverID |-> ServerID(i), result |-> result,
                   error |-> err]]

\* Host task of ExecuteOnNexus, after srv.Execute returned (result, err): the
\* next position and the message (srv.ID(), result, err).
AfterExecute(i, result, err) ==
    [pc |-> "send", hc |-> hc[i],
     msg |-> [serverID |-> ServerID(i), result |-> result, error |-> err]]

\* Host task of Status, after srv.HealthCheck returned herr: Online and Error
\* of serverStatus, and the next position (status.ServersOnline++ when the
\* host is online).
AfterHealthCheck(i, herr) ==
    IF herr # NoErr THEN
        [pc |-> "send", hc |-> "failed",
         msg |-> [serverID |-> ServerID(i),
                  status |-> [Online |-> FALSE, Resources |-> NilResult,
                              Error |-> herr]]]
    ELSE
        [pc |-> "inc_read", hc |-> "ok",
         msg |-> [serverID |-> ServerID(i),
                  status |-> [Online |-> TRUE, Resources |-> NilResult,
                              Error |-> ""]]]

\* Variant of AfterGetResources: a failed GetResources marks the host.
AfterGetResourcesDowngrades(status, info, err) ==
    IF err = NoErr THEN [status EXCEPT !.Resources = info]
    ELSE [status EXCEPT !.Online = FALSE, !.Error = err]

\* Status: serverStatus after GetResources returned (info, err).
AfterGetResources(status, info, err) ==
    IF err = NoErr THEN [status EXCEPT !.Resources = info] ELSE status

\* The first call of host task i on its server: srv.Execute(ctx, cmd, sudo)
\* in ExecuteOnNexus, srv.HealthCheck(ctx) in Status.  The server is a
\* mockServer: the call returns at once and does not look at ctx.
TaskCalls(i) ==
    /\ tpc[i] = "call"
    /\ execCalls' = [execCalls EXCEPT ![i] = @ + 1]
    /\ IF op = "Status"
       THEN LET next == AfterHealthCheck(i, MockHealthCheck)
            IN  /\ tpc' = [tpc EXCEPT ![i] = next.pc]
                /\ tmsg' = [tmsg EXCEPT ![i] = next.msg]
                /\ hc' = [hc EXCEPT ![i] = next.hc]
                /\ xret' = [xret EXCEPT ![i] = [err |-> MockHealthCheck]]
       ELSE LET r == MockExecute(CallCommand, CallSudo)
                next == AfterExecute(i, r.result, r.err)
            IN  /\ tpc' = [tpc EXCEPT ![i] = next.pc]
                /\ tmsg' = [tmsg EXCEPT ![i] = next.msg]
                /\ hc' = [hc EXCEPT ![i] = next.hc]
                /\ xret' = [xret EXCEPT ![i] = r]
    /\ UNCHANGED << hvars, xvars >>
    /\ UNCHANGED << chanFrom, cfg, ctxErr, op, name, pc, launched, wg,
                    closer, chan, chanClosed, treg, serversOnline, results,
                    lastError, ret, onlineWriters, collected >>

\* Status: status.ServersOnline++ is a plain read followed by a plain write.
IncRead(i) ==
    /\ tpc[i] = "inc_read"
    /\ treg' = [treg EXCEPT ![i] = serversOnline]
    /\ tpc' = [tpc EXCEPT ![i] = "inc_write"]
    /\ UNCHANGED << hvars, xvars >>
    /\ UNCHANGED << xret, chanFrom, cfg, ctxErr, op, name, pc, launched, wg,
                    closer, chan, chanClosed, tmsg, serversOnline, results,
                    lastError, ret, execCalls, hc, onlineWriters, collected >>

\* The write of status.ServersOnline++.
IncWrite(i) ==
    /\ tpc[i] = "inc_write"
    /\ serversOnline' = treg[i] + 1
    /\ onlineWriters' = onlineWriters \cup {i}
    /\ treg' = [treg EXCEPT ![i] = 0]
    /\ tpc' = [tpc EXCEPT ![i] = "resources"]
    /\ UNCHANGED << hvars, xvars >>
    /\ UNCHANGED << xret, chanFrom, cfg, ctxErr, op, name, pc, launched, wg,
                    closer, chan, chanClosed, tmsg, results, lastError, ret,
                    execCalls, hc, collected >>

\* Status: srv.GetResources(ctx) on the mockServer, and what the task does
\* with (resources, err).
GetResourcesReturns(i) ==
    /\ tpc[i] = "resources"
    /\ tmsg' = [tmsg EXCEPT ![i].status =
                  AfterGetResources(@, MockGetResources.info,
                                    MockGetResources.err)]
    /\ tpc' = [tpc EXCEPT ![i] = "send"]
    /\ UNCHANGED << hvars, xvars >>
    /\ UNCHANGED << xret, chanFrom, cfg, ctxErr, op, name, pc, launched, wg,
                    closer, chan, chanClosed, treg, serversOnline, results,
                    lastError, ret, execCalls, hc, onlineWriters, collected >>

\* The send on the buffered channel; a send on a closed channel panics.
Send(i) ==
    /\ tpc[i] = "send"
    /\ Len(chan) < N
    /\ tmsg' = [tmsg EXCEPT ![i] = Empty]
    /\ IF chanClosed
       THEN /\ tpc' = [tpc EXCEPT ![i] = "panic"]
            /\ UNCHANGED << chan, chanFrom >>
       ELSE /\ chan' = Append(chan, tmsg[i])
            /\ chanFrom' = Append(chanFrom, i)
            /\ tpc' = [tpc EXCEPT ![i] = "wgdone"]
    /\ UNCHANGED << hvars, xvars >>
    /\ UNCHANGED << xret, cfg, ctxErr, op, name, pc, launched, wg, closer,
                    chanClosed, treg, serversOnline, results, lastError, ret,
                    execCalls, hc, onlineWriters, collected >>

\* defer wg.Done()
WgDone(i) ==
    /\ tpc[i] = "wgdone"
    /\ wg' = wg - 1
    /\ tpc' = [tpc EXCEPT ![i] = "done"]
    /\ UNCHANGED << hvars, xvars >>
    /\ UNCHANGED << xret, chanFrom, cfg, ctxErr, op, name, pc, launched,
                    closer, chan, chanClosed, tmsg, treg, serversOnline,
                    results, lastError, ret, execCalls, hc, onlineWriters,
                    collected >>

(***************************************************************************)
(* Main goroutine, closer goroutine, caller                                *)
(***************************************************************************)

\* Status(ctx, n) / ExecuteOnNexus(ctx, n, cmd, sudo) is called: Get, which
\* takes the read lock for its duration, and the return on its error.
Call(o, n) ==
    /\ pc = "idle"
    /\ mu = "free"
    /\ op' = o
    /\ name' = n
    /\ IF GetError(n) # NoErr
       THEN /\ ret' = [value |-> NilResult, err |-> GetError(n)]
            /\ pc' = "done"
       ELSE /\ pc' = "dispatch"
            /\ UNCHANGED ret
    /\ UNCHANGED << hvars, xvars >>
    /\ UNCHANGED << xret, chanFrom, cfg, ctxErr, launched, wg, closer, chan,
                    chanClosed, tpc, tmsg, treg, serversOnline, results,
                    lastError, execCalls, hc, onlineWriters, collected >>

\* One iteration of `for _, server := range nexus.Servers`.
Launch ==
    /\ pc = "dispatch"
    /\ launched < N
    /\ wg' = wg + 1
    /\ launched' = launched + 1
    /\ tpc' = [tpc EXCEPT ![launched + 1] = "call"]
    /\ UNCHANGED << hvars, xvars >>
    /\ UNCHANGED << xret, chanFrom, cfg, ctxErr, op, name, pc, closer, chan,
                    chanClosed, tmsg, treg, serversOnline, results, lastError,
                    ret, execCalls, hc, onlineWriters, collected >>

\* go func() { wg.Wait(); close(chan) }()
StartCloser ==
    /\ pc = "dispatch"
    /\ launched = N
    /\ closer' = "wait"
    /\ pc' = "collect"
    /\ UNCHANGED << hvars, xvars >>
    /\ UNCHANGED << xret, chanFrom, cfg, ctxErr, op, name, launched, wg, chan,
                    chanClosed, tpc, tmsg, treg, serversOnline, results,
                    lastError, ret, execCalls, hc, onlineWriters, collected >>

CloserCloses ==
    /\ closer = "wait"
    /\ WaitReturns(wg)
    /\ chanClosed' = TRUE
    /\ closer' = "done"
    /\ UNCHANGED << hvars, xvars >>
    /\ UNCHANGED << xret, chanFrom, cfg, ctxErr, op, name, pc, launched, wg,
                    chan, tpc, tmsg, treg, serversOnline, results, lastError,
                    ret, execCalls, hc, onlineWriters, collected >>

\* One iteration of `for result := range chan`.
Collect ==
    /\ pc = "collect"
    /\ chan # << >>
    /\ chan' = Tail(chan)
    /\ chanFrom' = Tail(chanFrom)
    /\ collected' = collected + 1
    /\ IF op = "Status"
       THEN /\ results' = Put(results, Head(chan).serverID, Head(chan).status)
            /\ UNCHANGED lastError
       ELSE /\ results' = Put(results, Head(chan).serverID,
                              CollectedResult(Head(chan)))
            /\ lastError' = CollectedError(lastError, Head(chan))
    /\ UNCHANGED << hvars, xvars >>
    /\ UNCHANGED << xret, cfg, ctxErr, op, name, pc, launched, wg, closer,
                    chanClosed, tpc, tmsg, treg, serversOnline, ret,
                    execCalls, hc, onlineWriters >>

\* Status, after the loop: the Status value returned.
StatusValue(online, total, statuses) ==
    [Healthy |-> (online = total), ServersOnline |-> online,
     ServersTotal |-> total, ServerStatuses |-> statuses]

\* The range loop ends on the closed, drained channel; the call returns.
Return ==
    /\ pc = "collect"
    /\ chan = << >>
    /\ chanClosed
    /\ pc' = "done"
    /\ ret' = IF op = "Status"
              THEN [value |-> StatusValue(serversOnline, N, results),
                    err |-> NoErr]
              ELSE [value |-> results, err |-> SummaryError(lastError)]
    /\ UNCHANGED << hvars, xvars >>
    /\ UNCHANGED << xret, chanFrom, cfg, ctxErr, op, name, launched, wg,
                    closer, chan, chanClosed, tpc, tmsg, treg, serversOnline,
                    results, lastError, execCalls, hc, onlineWriters,
                    collected >>

\* The caller cancels ctx, or its deadline passes.
Cancel ==
    /\ pc # "done"
    /\ ctxErr = NoErr
    /\ ctxErr' \in CtxErrors
    /\ UNCHANGED << hvars, xvars >>
    /\ UNCHANGED << xret, chanFrom, cfg, op, name, pc, launched, wg, closer,
                    chan, chanClosed, tpc, tmsg, treg, serversOnline, results,
                    lastError, ret, execCalls, hc, onlineWriters, collected >>

TaskStep(i) ==
    \/ TaskCalls(i)
    \/ IncRead(i)
    \/ IncWrite(i)
    \/ GetResourcesReturns(i)
    \/ Send(i)
    \/ WgDone(i)

MainStep == Launch \/ StartCloser \/ Collect \/ Return

\* A step of some goroutine of the call.
GoroutineStep == MainStep \/ CloserCloses \/ \E i \in Tasks : TaskStep(i)

Next ==
    \/ \E o \in {"Status", "ExecuteOnNexus"}, n \in NexusNames : Call(o, n)
    \/ GoroutineStep
    \/ Cancel

Spec == Init /\ [][Next]_vars

\* The Go scheduler runs a goroutine as long as one can take a step.
\* Nothing obliges the caller to cancel.
Fairness == WF_vars(GoroutineStep)

FairSpec == Spec /\ Fairness

(***************************************************************************)
(* SSHServer: the parts of Connect, Disconnect, Execute, TransferFile and  *)
(* getCPUInfo that compute a value                                         *)
(***************************************************************************)

\* strconv.Atoi: an optional sign and one or more decimal digits, whose
\* value fits an int of 64 bits.
Digits == "0123456789"

IsDigit(c) == \E d \in 1..Len(Digits) : SubSeq(Digits, d, d) = c

DigitValue(c) == (CHOOSE d \in 1..Len(Digits) : SubSeq(Digits, d, d) = c) - 1

RECURSIVE AllDigits(_)
AllDigits(s) ==
    \/ Len(s) = 0
    \/ IsDigit(SubSeq(s, 1, 1)) /\ AllDigits(SubSeq(s, 2, Len(s)))

Unsigned(s) ==
    IF Len(s) > 0 /\ SubSeq(s, 1, 1) \in {"+", "-"}
    THEN SubSeq(s, 2, Len(s))
    ELSE s

\* The digits without their leading zeros.
RECURSIVE Significant(_)
Significant(s) ==
    IF Len(s) > 1 /\ SubSeq(s, 1, 1) = "0"
    THEN Significant(SubSeq(s, 2, Len(s)))
    ELSE s

\* a <= b for two numbers of as many digits each.
RECURSIVE DigitsLeq(_, _)
DigitsLeq(a, b) ==
    \/ Len(a) = 0
    \/ DigitValue(SubSeq(a, 1, 1)) < DigitValue(SubSeq(b, 1, 1))
    \/ /\ SubSeq(a, 1, 1) = SubSeq(b, 1, 1)
       /\ DigitsLeq(SubSeq(a, 2, Len(a)), SubSeq(b, 2, Len(b)))

\* 1<<63 - 1 and 1<<63, the largest magnitudes of an int above and below 0.
MaxInt == "9223372036854775807"
MinInt == "9223372036854775808"

\* Atoi returns no error: the syntax is right and the value is in range.
AtoiOk(s) ==
    /\ Len(Unsigned(s)) > 0
    /\ AllDigits(Unsigned(s))
    /\ LET d == Significant(Unsigned(s))
           limit == IF SubSeq(s, 1, 1) = "-" THEN MinInt ELSE MaxInt
       IN  \/ Len(d) < Len(limit)
           \/ Len(d) = Len(limit) /\ DigitsLeq(d, limit)

\* The value of Atoi, written in decimal: an int has 64 bits.
Atoi(s) ==
    LET d == Significant(Unsigned(s))
    IN  IF SubSeq(s, 1, 1) = "-" /\ d # "0" THEN "-" \o d ELSE d

\* getCPUInfo: the core count from the output of nproc, 1 when it is not a
\* number.
Cores(stdout) ==
    IF AtoiOk(TrimSpace(stdout)) THEN Atoi(TrimSpace(stdout)) ELSE "1"

\* The snapshot with the core count that getCPUInfo computed; rets[1] is
\* what the Execute of nproc returned.
SnapshotOf(rets) ==
    [Snapshot EXCEPT !.CPU = [Cores |-> Cores(rets[1].result.Stdout)]]

\* GetResources over what the Executes it made returned: rets ends with the
\* probe that failed, or holds all the probes.
GetResourcesValue(rets) ==
    IF GetResources(rets).err = NoErr
    THEN [info |-> SnapshotOf(rets), err |-> NoErr]
    ELSE GetResources(rets)

\* Variant of Command: the prefix whenever the caller asks for it.
CommandAlwaysSudo(cmd, sudo, allowed) ==
    IF sudo THEN "sudo -n " \o cmd ELSE cmd

\* Execute: the command given to session.Run.
Command(cmd, sudo, allowed) ==
    IF sudo /\ allowed THEN "sudo -n " \o cmd ELSE cmd

\* The commands of HealthCheck and of the probes of GetResources.
HealthCommand == "echo 'health_check'"

ProbeCommand(probe) ==
    CASE probe = "nproc"   -> "nproc"
      [] probe = "top"     -> "top -bn1 | grep 'Cpu(s)' | sed 's/.*, *\\([0-9.]*\\)%* id.*/\\1/' | awk '{print 100 - $1}'"
      [] probe = "model"   -> "cat /proc/cpuinfo | grep 'model name' | head -1 | cut -d: -f2 | sed 's/^ *//'"
      [] probe = "arch"    -> "uname -m"
      [] probe = "free"    -> "free -b"
      [] probe = "df"      -> "df -B1 /"
      [] probe = "loadavg" -> "cat /proc/loadavg"

\* Commands an operator passes to Execute.
Commands == {"uptime", "ls /root"}

\* The outcomes of the remote command of a probe that the model explores:
\* the expected output, and one that is not; for nproc also a number that
\* no int holds and a number followed by a no-break space.
ProbeOutcomes(probe) ==
    { Ran("nil", 0, "", GoodOutput(probe), ""),
      CASE probe = "nproc"   -> Ran("nil", 0, "", "many\n", "")
        [] probe = "top"     -> Ran("exit", 1, "", "", "top: not found\n")
        [] probe = "model"   -> Ran("nil", 0, "", "", "")
        [] probe = "arch"    -> Ran("other", 0, "EOF", "", "")
        [] probe = "free"    -> Ran("nil", 0, "", "Mem: 8 2\n", "")
        [] probe = "df"      -> Ran("nil", 0, "", "h\n/dev/sda1 9\n", "")
        [] probe = "loadavg" -> Ran("nil", 0, "", "0.1\n", "") }
    \cup (IF probe = "nproc"
          THEN { Ran("nil", 0, "", "99999999999999999999\n", ""),
                 Ran("nil", 0, "", "8\\u00A0\n", "") }
          ELSE {})

\* The outcomes of the remote command of a call on the handle.
HandleOutcomes(call) ==
    CASE call = "exec"   -> RunOutcomes(call)
      [] call = "health" -> RunOutcomes(call)
                            \cup { Ran("nil", 0, "", " health_check\r\n", ""),
                                   Ran("nil", 0, "",
                                       "health_check\\u00A0\n", ""),
                                   Ran("nil", 0, "",
                                       "\\u2003health_check\\u3000", ""),
                                   Ran("nil", 0, "", "health_check ok\n", "") }
      [] OTHER           -> ProbeOutcomes(call)

\* How far Connect gets on a handle that is not connected.
ConnectOutcomes == {"key", "parse", "dial", "handshake", "ok"}

\* A connection that is not open.
NewConn(open) == CHOOSE c \in 1..(Cardinality(open) + 1) : c \notin open

\* Variant of Connect: no test of s.client.
ConnectAlways(c, conn, open, o) ==
    CASE o = "key" ->
            [client |-> c, conn |-> conn, live |-> open, dialed |-> FALSE,
             err |-> "failed to read SSH private key from /k: no such file"]
      [] o = "parse" ->
            [client |-> c, conn |-> conn, live |-> open, dialed |-> FALSE,
             err |-> "failed to parse SSH private key at /k: no key found"]
      [] o = "dial" ->
            [client |-> c, conn |-> 0, live |-> open, dialed |-> TRUE,
             err |-> "failed to connect to app:22: i/o timeout"]
      [] o = "handshake" ->
            [client |-> c, conn |-> NewConn(open), live |-> open,
             dialed |-> TRUE,
             err |-> "failed to establish SSH connection: EOF"]
      [] o = "ok" ->
            [client |-> NewConn(open), conn |-> NewConn(open),
             live |-> open \cup {NewConn(open)}, dialed |-> TRUE,
             err |-> NoErr]

\* Variant of Connect: a failed handshake leaves the dialed connection open.
ConnectLeavesOpen(c, conn, open, o) ==
    IF c # 0
    THEN [client |-> c, conn |-> conn, live |-> open, dialed |-> FALSE,
          err |-> NoErr]
    ELSE CASE o = "key" ->
            [client |-> c, conn |-> conn, live |-> open, dialed |-> FALSE,
             err |-> "failed to read SSH private key from /k: no such file"]
      [] o = "parse" ->
            [client |-> c, conn |-> conn, live |-> open, dialed |-> FALSE,
             err |-> "failed to parse SSH private key at /k: no key found"]
      [] o = "dial" ->
            [client |-> c, conn |-> 0, live |-> open, dialed |-> TRUE,
             err |-> "failed to connect to app:22: i/o timeout"]
      [] o = "handshake" ->
            [client |-> c, conn |-> NewConn(open),
             live |-> open \cup {NewConn(open)}, dialed |-> TRUE,
             err |-> "failed to establish SSH connection: EOF"]
      [] o = "ok" ->
            [client |-> NewConn(open), conn |-> NewConn(open),
             live |-> open \cup {NewConn(open)}, dialed |-> TRUE,
             err |-> NoErr]

\* Connect on a handle with s.client = c, s.conn = conn and the open
\* connections `open`, getting as far as o: the fields after it, whether it
\* dialed, and the error returned.
Connect(c, conn, open, o) ==
    IF c # 0
    THEN [client |-> c, conn |-> conn, live |-> open, dialed |-> FALSE,
          err |-> NoErr]
    ELSE CASE o = "key" ->
            [client |-> c, conn |-> conn, live |-> open, dialed |-> FALSE,
             err |-> "failed to read SSH private key from /k: no such file"]
      [] o = "parse" ->
            [client |-> c, conn |-> conn, live |-> open, dialed |-> FALSE,
             err |-> "failed to parse SSH private key at /k: no key found"]
      [] o = "dial" ->
            [client |-> c, conn |-> 0, live |-> open, dialed |-> TRUE,
             err |-> "failed to connect to app:22: i/o timeout"]
      [] o = "handshake" ->
            [client |-> c, conn |-> NewConn(open), live |-> open,
             dialed |-> TRUE,
             err |-> "failed to establish SSH connection: EOF"]
      [] o = "ok" ->
            [client |-> NewConn(open), conn |-> NewConn(open),
             live |-> open \cup {NewConn(open)}, dialed |-> TRUE,
             err |-> NoErr]

\* What s.client.Close() may return.
CloseErrors == {NoErr, "close: connection reset by peer"}

\* Variant of Disconnect: s.client is closed and kept.
DisconnectKeepsClient(c, conn, open, closeErr) ==
    IF c # 0
    THEN [client |-> c, conn |-> 0, live |-> open \ {c, conn},
          err |-> closeErr]
    ELSE [client |-> c, conn |-> conn, live |-> open, err |-> NoErr]

\* Disconnect: the fields after it and the error returned.
Disconnect(c, conn, open, closeErr) ==
    IF c # 0
    THEN [client |-> 0, conn |-> 0, live |-> open \ {c, conn},
          err |-> closeErr]
    ELSE [client |-> c, conn |-> conn, live |-> open, err |-> NoErr]

\* What TransferFile may return once it has a client.
TransferErrors ==
    { NoErr,
      "failed to create SFTP client: EOF",
      "failed to open local file app.tar: no such file or directory",
      "failed to copy file data: EOF" }

\* Variant of TransferFile: no test of s.client.
TransferFileUnchecked(c, err) == [opened |-> "sftp", err |-> err]

\* TransferFile on a handle with s.client = c: what it opened and the error
\* returned, err being the outcome of the transfer.
TransferFile(c, err) ==
    IF c = 0 THEN [opened |-> "none", err |-> NotConnectedErr]
    ELSE [opened |-> "sftp", err |-> err]

(***************************************************************************)
(* One handle: the calls of its owner, one at a time                       *)
(***************************************************************************)

\* The handle calls that run commands, with their arguments.
ExecuteCalls ==
    { [op |-> "Execute", cmd |-> c, sudo |-> s] : c \in Commands, s \in BOOLEAN }
    \cup { [op |-> o, cmd |-> "", sudo |-> FALSE] :
             o \in {"HealthCheck", "GetResources"} }

\* The Execute the call in progress makes next: which command it is, its
\* text and its sudo argument.
HKind ==
    CASE hcall.op = "Execute"      -> "exec"
      [] hcall.op = "HealthCheck"  -> "health"
      [] hcall.op = "GetResources" -> Probes[Len(hrets) + 1]

HCommand ==
    CASE hcall.op = "Execute"      -> hcall.cmd
      [] hcall.op = "HealthCheck"  -> HealthCommand
      [] hcall.op = "GetResources" -> ProbeCommand(HKind)

HSudo == hcall.op = "Execute" /\ hcall.sudo

\* Connect(ctx)
HConnect ==
    /\ hpc = "idle"
    /\ hcall' = [op |-> "Connect", cmd |-> "", sudo |-> FALSE]
    /\ \E o \in ConnectOutcomes :
          /\ hclient' = Connect(hclient, hconn, live, o).client
          /\ hconn' = Connect(hclient, hconn, live, o).conn
          /\ live' = Connect(hclient, hconn, live, o).live
          /\ dialed' = Connect(hclient, hconn, live, o).dialed
          /\ hret' = [err |-> Connect(hclient, hconn, live, o).err]
    /\ opened' = "none"
    /\ hctx' = NoErr /\ hdone' = Empty /\ hkilled' = FALSE /\ hended' = FALSE
    /\ hran' = "" /\ hout' = Empty /\ hx' = Empty /\ hrets' = << >>
    /\ UNCHANGED << hpc, sudoAllowed >>
    /\ UNCHANGED << cvars, xvars >>

\* Disconnect()
HDisconnect ==
    /\ hpc = "idle"
    /\ hcall' = [op |-> "Disconnect", cmd |-> "", sudo |-> FALSE]
    /\ \E e \in CloseErrors :
          /\ hclient' = Disconnect(hclient, hconn, live, e).client
          /\ hconn' = Disconnect(hclient, hconn, live, e).conn
          /\ live' = Disconnect(hclient, hconn, live, e).live
          /\ hret' = [err |-> Disconnect(hclient, hconn, live, e).err]
    /\ opened' = "none" /\ dialed' = FALSE
    /\ hctx' = NoErr /\ hdone' = Empty /\ hkilled' = FALSE /\ hended' = FALSE
    /\ hran' = "" /\ hout' = Empty /\ hx' = Empty /\ hrets' = << >>
    /\ UNCHANGED << hpc, sudoAllowed >>
    /\ UNCHANGED << cvars, xvars >>

\* TransferFile(ctx, local, remote)
HTransferFile ==
    /\ hpc = "idle"
    /\ hcall' = [op |-> "TransferFile", cmd |-> "", sudo |-> FALSE]
    /\ \E e \in TransferErrors :
          /\ opened' = TransferFile(hclient, e).opened
          /\ hret' = [err |-> TransferFile(hclient, e).err]
    /\ dialed' = FALSE
    /\ hctx' = NoErr /\ hdone' = Empty /\ hkilled' = FALSE /\ hended' = FALSE
    /\ hran' = "" /\ hout' = Empty /\ hx' = Empty /\ hrets' = << >>
    /\ UNCHANGED << hpc, sudoAllowed, hclient, hconn, live >>
    /\ UNCHANGED << cvars, xvars >>

\* Execute(ctx, cmd, sudo), HealthCheck(ctx) or GetResources(ctx) is called.
HBegin(c) ==
    /\ hpc = "idle"
    /\ hcall' = c
    /\ hpc' = "call"
    /\ opened' = "none" /\ dialed' = FALSE
    /\ hctx' = NoErr /\ hdone' = Empty /\ hkilled' = FALSE /\ hended' = FALSE
    /\ hran' = "" /\ hout' = Empty /\ hx' = Empty /\ hrets' = << >>
    /\ hret' = Empty
    /\ UNCHANGED << sudoAllowed, hclient, hconn, live >>
    /\ UNCHANGED << cvars, xvars >>

\* Variant of GetResourcesGoesOn: every probe is run.
GetResourcesRunsAll(rets) == Len(rets) < Len(Probes)

\* GetResources, after the Executes that returned rets: it makes another.
GetResourcesGoesOn(rets) ==
    /\ Len(rets) < Len(Probes)
    /\ ProbeError(Probes[Len(rets)], rets[Len(rets)].result,
                  rets[Len(rets)].err) = NoErr

\* An Execute of the call in progress returned (result, err): the call
\* returns, or GetResources goes on to its next probe.
HReturned(result, err) ==
    /\ hx' = [result |-> result, err |-> err]
    /\ CASE hcall.op = "Execute" ->
              /\ hret' = [result |-> result, err |-> err]
              /\ hpc' = "idle"
              /\ UNCHANGED hrets
         [] hcall.op = "HealthCheck" ->
              /\ hret' = [err |-> HealthCheck(result, err)]
              /\ hpc' = "idle"
              /\ UNCHANGED hrets
         [] hcall.op = "GetResources" ->
              /\ hrets' = Append(hrets, [result |-> result, err |-> err])
              /\ IF GetResourcesGoesOn(hrets')
                 THEN hpc' = "call" /\ UNCHANGED hret
                 ELSE hpc' = "idle" /\ hret' = GetResourcesValue(hrets')

\* Execute is entered: the test of s.client, and the call of
\* s.client.NewSession().
HExecuteStart ==
    /\ hpc = "call"
    /\ IF hclient = 0
       THEN HReturned(NilResult, NotConnectedErr)
       ELSE /\ hpc' = "session"
            /\ UNCHANGED << hx, hrets, hret >>
    /\ hout' = Empty
    /\ hended' = FALSE
    /\ UNCHANGED << sudoAllowed, hclient, hconn, live, hcall, hctx, hdone,
                    hkilled, hran, opened, dialed >>
    /\ UNCHANGED << cvars, xvars >>

\* s.client.NewSession() returns, when the host has answered the request to
\* open a channel: with an error, or with the session, on which Execute
\* starts the goroutine that runs the command and goes to its select.
\* NewSession does not look at ctx.
HNewSession ==
    /\ hpc = "session"
    /\ \/ /\ HReturned(NilResult, SessionErr)
          /\ UNCHANGED << opened, hran >>
       \/ /\ opened' = "session"
          /\ hran' = Command(HCommand, HSudo, sudoAllowed)
          /\ hpc' = "select"
          /\ UNCHANGED << hx, hrets, hret >>
    /\ UNCHANGED << sudoAllowed, hclient, hconn, live, hcall, hctx, hdone,
                    hkilled, hended, hout, dialed >>
    /\ UNCHANGED << cvars, xvars >>

\* The goroutine of Execute: session.Run returns.
HRunReturns ==
    /\ hpc = "select"
    /\ hdone = Empty
    /\ hdone' \in HandleOutcomes(HKind)
    /\ UNCHANGED << sudoAllowed, hclient, hconn, live, hcall, hpc, hctx,
                    hkilled, hended, hran, hout, opened, dialed, hx, hrets,
                    hret >>
    /\ UNCHANGED << cvars, xvars >>

\* Execute, the select.
HSelect ==
    /\ hpc = "select"
    /\ \/ /\ CtxDone(hctx)
          /\ hkilled' = ExecuteCanceled(hctx).kill
          /\ HReturned(ExecuteCanceled(hctx).result, ExecuteCanceled(hctx).err)
       \/ /\ hdone # Empty
          /\ HReturned(ExecuteResult(hdone), NoErr)
          /\ UNCHANGED hkilled
    /\ hout' = hdone
    /\ hdone' = Empty
    /\ UNCHANGED << sudoAllowed, hclient, hconn, live, hcall, hctx, hran,
                    hended, opened, dialed >>
    /\ UNCHANGED << cvars, xvars >>

\* The caller cancels the context of the call, or its deadline passes.
HCancel ==
    /\ hpc # "idle"
    /\ hctx = NoErr
    /\ hctx' \in CtxErrors
    /\ hended' = (hpc = "select" /\ hdone # Empty)
    /\ UNCHANGED << sudoAllowed, hclient, hconn, live, hcall, hpc, hdone,
                    hkilled, hran, hout, opened, dialed, hx, hrets, hret >>
    /\ UNCHANGED << cvars, xvars >>

\* A handle fresh from NewSSHServer, beside a coordinator that stays idle.
HandleInit ==
    /\ sudoAllowed \in BOOLEAN
    /\ NewSSHServer
    /\ cfg = << "web" >>
    /\ ManagerIdle
    /\ NewManager("")
    /\ NoDistroCall
    /\ NoFactory
    /\ NoProvision

HandleNext ==
    \/ HConnect
    \/ HDisconnect
    \/ HTransferFile
    \/ \E c \in ExecuteCalls : HBegin(c)
    \/ HExecuteStart
    \/ HNewSession
    \/ HRunReturns
    \/ HSelect
    \/ HCancel

HandleSpec == HandleInit /\ [][HandleNext]_vars

\* The Go scheduler runs the goroutine that is in Execute: it makes the
\* test of s.client, and leaves the select when a case of it is ready.
\* Nothing obliges a caller to cancel, the host to answer the request for
\* a session, or the remote command to end.
HandleFairness == WF_vars(HExecuteStart) /\ WF_vars(HSelect)

HandleFairSpec == HandleSpec /\ HandleFairness

(***************************************************************************)
(* Manager: the active nexus, Switch and ExecuteOnAll                       *)
(***************************************************************************)

\* ExecuteOnAll(ctx, cmd, sudo) is called: GetCurrent reads the name of the
\* active nexus from the config manager, which takes no lock.
ExecuteOnAll ==
    /\ pc = "idle"
    /\ op' = "ExecuteOnAll"
    /\ name' = runtimeNexus
    /\ IF runtimeNexus = ""
       THEN /\ ret' = [value |-> NilResult,
                       err |-> "no current nexus: " \o GetCurrentError("")]
            /\ pc' = "done"
       ELSE /\ pc' = "getcurrent"
            /\ UNCHANGED ret
    /\ UNCHANGED << hvars, xvars >>
    /\ UNCHANGED << xret, chanFrom, cfg, ctxErr, launched, wg, closer, chan,
                    chanClosed, tpc, tmsg, treg, serversOnline, results,
                    lastError, execCalls, hc, onlineWriters, collected >>

\* ExecuteOnAll: the Get of GetCurrent, under the read lock, and the return
\* of ExecuteOnAll on its error.
GetCurrent ==
    /\ pc = "getcurrent"
    /\ mu = "free"
    /\ IF GetError(name) # NoErr
       THEN /\ ret' = [value |-> NilResult,
                       err |-> "no current nexus: " \o GetCurrentError(name)]
            /\ pc' = "done"
       ELSE /\ pc' = "current"
            /\ UNCHANGED ret
    /\ UNCHANGED << hvars, xvars >>
    /\ UNCHANGED << xret, chanFrom, cfg, ctxErr, op, name, launched, wg,
                    closer, chan, chanClosed, tpc, tmsg, treg, serversOnline,
                    results, lastError, execCalls, hc, onlineWriters,
                    collected >>

\* ExecuteOnAll: ExecuteOnNexus(ctx, currentNexus.Name, cmd, sudo), which
\* starts with a Get of its own, under the read lock again.
ExecuteOnNexus ==
    /\ pc = "current"
    /\ mu = "free"
    /\ IF GetError(name) # NoErr
       THEN /\ ret' = [value |-> NilResult, err |-> GetError(name)]
            /\ pc' = "done"
       ELSE /\ pc' = "dispatch"
            /\ UNCHANGED ret
    /\ UNCHANGED << hvars, xvars >>
    /\ UNCHANGED << xret, chanFrom, cfg, ctxErr, op, name, launched, wg,
                    closer, chan, chanClosed, tpc, tmsg, treg, serversOnline,
                    results, lastError, execCalls, hc, onlineWriters,
                    collected >>

\* A call of SetCurrentNexus(n) by caller c, up to the assignment: the
\* lookup in config.Nexuses and the load of the pointer m.runtime.
SetCurrentNexusCalled(c, n) ==
    cm' = [cm EXCEPT ![c] =
              IF n \notin ConfigNexusNames
              THEN [NoConfigCall EXCEPT
                       !.pc = "returned", !.before = runtimeNexus,
                       !.err = "nexus '" \o n
                                   \o "' not found in configuration"]
              ELSE [NoConfigCall EXCEPT
                       !.pc = "store", !.name = n,
                       !.before = runtimeNexus]]

\* Caller c returns the error e.
ConfigReturns(c, e) ==
    cm' = [cm EXCEPT ![c] = [NoConfigCall EXCEPT !.pc = "returned",
                                                 !.before = cm[c].before,
                                                 !.err = e]]

\* Switch(n), one statement at a time: m.mu.Lock(); m.Get(name), which
\* starts with m.mu.RLock(); configMgr.SetCurrentNexus(name) and
\* m.currentNexus = name.  Each return runs the deferred m.mu.Unlock().
Switch(n) ==
    /\ CASE swpc \in {"idle", "returned"} ->
              /\ mu = "free"
              /\ mu' = "write"
              /\ swpc' = "get"
              /\ swname' = n
              /\ swret' = Empty
              /\ swbefore' = currentNexus
              /\ cm' = [cm EXCEPT !["switch"] = NoConfigCall]
              /\ UNCHANGED << runtimeNexus, runtimeFile, currentNexus >>
         [] swpc = "get" ->
              /\ n = swname
              /\ mu # "write"
              /\ IF GetError(swname) # NoErr
                 THEN /\ swret' = [err |-> "cannot switch to nexus: "
                                               \o GetError(swname)]
                      /\ swpc' = "returned"
                      /\ mu' = "free"
                 ELSE /\ swpc' = "set"
                      /\ UNCHANGED << swret, mu >>
              /\ UNCHANGED << runtimeNexus, runtimeFile, currentNexus,
                              swname, swbefore, cm >>
         [] swpc = "set" ->
              /\ n = swname
              /\ SetCurrentNexusCalled("switch", swname)
              /\ swpc' = "save"
              /\ UNCHANGED << mu, runtimeNexus, runtimeFile, currentNexus,
                              swname, swbefore, swret >>
         [] swpc = "save" ->
              /\ n = swname
              /\ cm["switch"].pc = "returned"
              /\ IF cm["switch"].err # NoErr
                 THEN /\ swret' = [err |-> "failed to set current nexus: "
                                               \o cm["switch"].err]
                      /\ UNCHANGED currentNexus
                 ELSE /\ swret' = [err |-> NoErr]
                      /\ currentNexus' = swname
              /\ swpc' = "returned"
              /\ mu' = "free"
              /\ UNCHANGED << runtimeNexus, runtimeFile, swname, swbefore,
                              cm >>
    /\ UNCHANGED << cvars, hvars, dvars, fvars, pvars >>

\* configMgr.SetCurrentNexus(n), called on the config manager itself.  It
\* takes no lock and does not look at the nexus manager.
SetCurrent(n) ==
    /\ cm["set"].pc \in {"idle", "returned"}
    /\ SetCurrentNexusCalled("set", n)
    /\ UNCHANGED << mu, runtimeNexus, runtimeFile, currentNexus, swpc,
                    swname, swbefore, swret >>
    /\ UNCHANGED << cvars, hvars, dvars, fvars, pvars >>

\* SetCurrentNexus of caller c: the store of m.runtime.CurrentNexus =
\* nexusName.  It goes to the struct m.runtime pointed to when the call
\* loaded the pointer; after a LoadRuntimeConfig has replaced m.runtime in
\* between, that struct is no longer the manager's.
SetCurrentStores(c) ==
    /\ cm[c].pc = "store"
    /\ runtimeNexus' = IF cm[c].stale THEN runtimeNexus ELSE cm[c].name
    /\ cm' = [cm EXCEPT ![c].pc = "marshal", ![c].name = "",
                        ![c].stale = FALSE]
    /\ UNCHANGED << mu, runtimeFile, currentNexus, swpc, swname, swbefore,
                    swret >>
    /\ UNCHANGED << cvars, hvars, dvars, fvars, pvars >>

\* saveRuntimeConfig of caller c, up to yaml.Marshal(m.runtime): the error
\* of os.UserHomeDir, or the text to write.
SaveMarshals(c) ==
    /\ cm[c].pc = "marshal"
    /\ \/ ConfigReturns(c, HomeErr)
       \/ cm' = [cm EXCEPT ![c].pc = "open",
                           ![c].local = Marshal(runtimeNexus)]
    /\ UNCHANGED << mu, runtimeNexus, runtimeFile, currentNexus, swpc,
                    swname, swbefore, swret >>
    /\ UNCHANGED << cvars, hvars, dvars, fvars, pvars >>

\* os.WriteFile of caller c: the file is opened, and emptied when that
\* succeeds.
SaveOpens(c) ==
    /\ cm[c].pc = "open"
    /\ \/ ConfigReturns(c, OpenErr) /\ UNCHANGED runtimeFile
       \/ /\ runtimeFile' = ""
          /\ cm' = [cm EXCEPT ![c].pc = "write"]
    /\ UNCHANGED << mu, runtimeNexus, currentNexus, swpc, swname, swbefore,
                    swret >>
    /\ UNCHANGED << cvars, hvars, dvars, fvars, pvars >>

\* os.WriteFile of caller c: the text is written and the call returns.
SaveWrites(c) ==
    /\ cm[c].pc = "write"
    /\ \/ ConfigReturns(c, WriteErr) /\ UNCHANGED runtimeFile
       \/ /\ runtimeFile' = Overlay(runtimeFile, cm[c].local)
          /\ ConfigReturns(c, NoErr)
    /\ UNCHANGED << mu, runtimeNexus, currentNexus, swpc, swname, swbefore,
                    swret >>
    /\ UNCHANGED << cvars, hvars, dvars, fvars, pvars >>

\* configMgr.LoadRuntimeConfig(), called again on the config manager, up to
\* os.ReadFile: it returns when the home directory is not known, or a
\* directory or the secret manager cannot be made.
LoadRuntime ==
    /\ cm["load"].pc \in {"idle", "returned"}
    /\ \/ cm' = [cm EXCEPT !["load"] =
                    [NoConfigCall EXCEPT !.pc = "returned",
                                         !.before = runtimeNexus,
                                         !.err = HomeErr]]
       \/ cm' = [cm EXCEPT !["load"] =
                    [NoConfigCall EXCEPT !.pc = "read",
                                         !.before = runtimeNexus]]
    /\ UNCHANGED << mu, runtimeNexus, runtimeFile, currentNexus, swpc,
                    swname, swbefore, swret >>
    /\ UNCHANGED << cvars, hvars, dvars, fvars, pvars >>

\* LoadRuntimeConfig: os.ReadFile, one read of its loop at a time, and
\* yaml.Unmarshal into the defaults.  Each read takes what the file holds
\* then behind the bytes read so far; the read that finds nothing there
\* ends the loop.  Between two reads a SetCurrentNexus may empty the file
\* and write its text.  A file that cannot be opened or read leaves the
\* defaults, in which no nexus is current; a text that is not YAML ends
\* the call, with m.runtime and the file as they are.
LoadReads ==
    /\ cm["load"].pc = "read"
    /\ LET data == cm["load"].local
           more == SubSeq(runtimeFile, Len(data) + 1, Len(runtimeFile))
       IN  \/ cm' = [cm EXCEPT !["load"].pc = "assign",
                               !["load"].local = ""]
           \/ /\ more # ""
              /\ cm' = [cm EXCEPT !["load"].local = data \o more]
           \/ /\ more = ""
              /\ IF Unmarshal(data).err # NoErr
                 THEN ConfigReturns("load",
                                    "failed to unmarshal runtime config: "
                                        \o Unmarshal(data).err)
                 ELSE cm' = [cm EXCEPT !["load"].pc = "assign",
                                       !["load"].local =
                                           Unmarshal(data).current]
    /\ UNCHANGED << mu, runtimeNexus, runtimeFile, currentNexus, swpc,
                    swname, swbefore, swret >>
    /\ UNCHANGED << cvars, hvars, dvars, fvars, pvars >>

\* LoadRuntimeConfig: m.runtime = runtime.  A SetCurrentNexus that has
\* loaded the pointer it replaces is left with the old struct.
LoadAssigns ==
    /\ cm["load"].pc = "assign"
    /\ runtimeNexus' = cm["load"].local
    /\ cm' = [c \in Callers |->
                 IF c = "load"
                 THEN [cm[c] EXCEPT !.pc = "marshal", !.local = ""]
                 ELSE IF cm[c].pc = "store"
                 THEN [cm[c] EXCEPT !.stale = TRUE]
                 ELSE cm[c]]
    /\ UNCHANGED << mu, runtimeFile, currentNexus, swpc, swname, swbefore,
                    swret >>
    /\ UNCHANGED << cvars, hvars, dvars, fvars, pvars >>

\* A step of a call on the config manager that has not returned.
ConfigStep ==
    \/ \E c \in Callers :
          SetCurrentStores(c) \/ SaveMarshals(c) \/ SaveOpens(c)
              \/ SaveWrites(c)
    \/ LoadReads
    \/ LoadAssigns

\* A step of a Switch that has been called.
SwitchStep ==
    swpc \in {"get", "set", "save"} /\ \E n \in NexusNames : Switch(n)

\* A manager of one host, over a runtime file that names any nexus or none.
ManagerInit ==
    /\ sudoAllowed = FALSE
    /\ NewSSHServer
    /\ \E current \in {""} \cup NexusNames : NewManager(current)
    /\ cfg = << "web" >>
    /\ ManagerIdle
    /\ NoDistroCall
    /\ NoFactory
    /\ NoProvision

ManagerNext ==
    \/ Next
    \/ ExecuteOnAll
    \/ GetCurrent
    \/ ExecuteOnNexus
    \/ \E n \in NexusNames : Switch(n)
    \/ \E n \in NexusNames : SetCurrent(n)
    \/ \E c \in Callers : SetCurrentStores(c)
    \/ \E c \in Callers : SaveMarshals(c)
    \/ \E c \in Callers : SaveOpens(c)
    \/ \E c \in Callers : SaveWrites(c)

\* The nexus manager beside a caller of SetCurrentNexus.
ManagerSpec == ManagerInit /\ [][ManagerNext]_vars

\* The config manager with all its callers: SetCurrentNexus and
\* LoadRuntimeConfig called beside each other and beside Switch.
ConfigNext ==
    \/ \E n \in NexusNames : Switch(n)
    \/ \E n \in NexusNames : SetCurrent(n)
    \/ LoadRuntime
    \/ \E c \in Callers : SetCurrentStores(c)
    \/ \E c \in Callers : SaveMarshals(c)
    \/ \E c \in Callers : SaveOpens(c)
    \/ \E c \in Callers : SaveWrites(c)
    \/ LoadReads
    \/ LoadAssigns

ConfigSpec == ManagerInit /\ [][ConfigNext]_vars

\* The Go scheduler runs a goroutine that can take a step.
ManagerFairSpec ==
    ManagerSpec /\ WF_vars(GoroutineStep) /\ WF_vars(SwitchStep)
        /\ WF_vars(ConfigStep)

(***************************************************************************)
(* Distro operations: DebianOperations, UbuntuOperations, RockyOperations   *)
(***************************************************************************)

Families == {"debian", "ubuntu", "rocky"}

Operations ==
    {"InstallDocker", "ConfigureFirewall", "UpdateSystem",
     "ConfigureAutomaticUpdates", "HardenSSH"}

\* One call of server.Execute(ctx, cmd, sudo) and what the code does with
\* the (result, err) it returns:
\*   both   returns an error on err != nil and on result.ExitCode != 0
\*   err    returns an error on err != nil only
\*   none   goes on whatever it returns
\*   ifok   runs the next call only if err == nil && result.ExitCode == 0
\*   unless runs the next call only if err != nil || result.ExitCode != 0
\*   done   returns nil if err == nil && result.ExitCode == 0
Must(cmd, sudo, errmsg, exitmsg) ==
    [cmd |-> cmd, sudo |-> sudo, check |-> "both",
     errmsg |-> errmsg, exitmsg |-> exitmsg]

ErrOnly(cmd, sudo, errmsg) ==
    [cmd |-> cmd, sudo |-> sudo, check |-> "err",
     errmsg |-> errmsg, exitmsg |-> ""]

Branch(cmd, sudo, check) ==
    [cmd |-> cmd, sudo |-> sudo, check |-> check,
     errmsg |-> "", exitmsg |-> ""]

\* strconv.Itoa, as %d formats a port.
RECURSIVE Itoa(_)
Itoa(n) ==
    IF n < 10 THEN SubSeq(Digits, n + 1, n + 1)
    ELSE Itoa(n \div 10) \o SubSeq(Digits, (n % 10) + 1, (n % 10) + 1)

\* The user `whoami` prints on a host where the login is not root.
LoginUser == "deploy"

\* Variant of DockerProbes: the answer to the version query is not used.
DockerProbesGoOn ==
    << Branch("which docker", FALSE, "ifok"),
       Branch("docker --version", FALSE, "none") >>

\* The probes that InstallDocker starts with in every family.
DockerProbes ==
    << Branch("which docker", FALSE, "ifok"),
       Branch("docker --version", FALSE, "done") >>

\* The last steps that InstallDocker has in every family.
DockerService ==
    << Must("systemctl start docker", TRUE,
            "failed to start Docker service", "Docker service start failed"),
       Must("systemctl enable docker", TRUE,
            "failed to enable Docker service", "Docker service enable failed"),
       Branch("whoami", FALSE, "ifok"),
       Branch("usermod -aG docker " \o LoginUser, TRUE, "none"),
       Must("docker --version", TRUE,
            "failed to verify Docker installation",
            "Docker verification failed") >>

InstallDocker(family) ==
    CASE family = "debian" ->
        DockerProbes \o
        << Must("apt-get update", TRUE,
                "failed to update package index", "apt-get update failed"),
           Must("apt-get install -y apt-transport-https ca-certificates curl gnupg lsb-release",
                TRUE, "failed to install prerequisites",
                "prerequisite installation failed"),
           Must("curl -fsSL https://download.docker.com/linux/debian/gpg | gpg --dearmor -o /usr/share/keyrings/docker-archive-keyring.gpg",
                TRUE, "failed to add Docker GPG key",
                "Docker GPG key installation failed"),
           Must("echo \"deb [arch=amd64 signed-by=/usr/share/keyrings/docker-archive-keyring.gpg] https://download.docker.com/linux/debian $(lsb_release -cs) stable\" | tee /etc/apt/sources.list.d/docker.list > /dev/null",
                TRUE, "failed to add Docker repository",
                "Docker repository setup failed"),
           Must("apt-get update", TRUE,
                "failed to update package index after adding Docker repo",
                "apt-get update failed"),
           Must("apt-get install -y docker-ce docker-ce-cli containerd.io",
                TRUE, "failed to install Docker",
                "Docker installation failed") >>
        \o DockerService
      [] family = "ubuntu" ->
        DockerProbes \o
        << Must("apt-get update", TRUE,
                "failed to update package index", "apt-get update failed"),
           Must("apt-get install -y apt-transport-https ca-certificates curl gnupg lsb-release",
                TRUE, "failed to install prerequisites",
                "prerequisite installation failed"),
           Must("curl -fsSL https://download.docker.com/linux/ubuntu/gpg -o /tmp/docker.gpg",
                FALSE, "failed to download Docker GPG key",
                "Docker GPG key download failed"),
           Must("gpg --dearmor < /tmp/docker.gpg | sudo tee /usr/share/keyrings/docker-archive-keyring.gpg > /dev/null",
                FALSE, "failed to install Docker GPG key",
                "Docker GPG key installation failed"),
           Branch("rm -f /tmp/docker.gpg", FALSE, "none"),
           Must("echo \"deb [arch=amd64 signed-by=/usr/share/keyrings/docker-archive-keyring.gpg] https://download.docker.com/linux/ubuntu $(lsb_release -cs) stable\" | sudo tee /etc/apt/sources.list.d/docker.list > /dev/null",
                FALSE, "failed to add Docker repository",
                "Docker repository setup failed"),
           Must("apt-get update", TRUE,
                "failed to update package index after adding Docker repo",
                "apt-get update failed"),
           Must("apt-get install -y docker-ce docker-ce-cli containerd.io",
                TRUE, "failed to install Docker",
                "Docker installation failed") >>
        \o DockerService
      [] family = "rocky" ->
        DockerProbes \o
        << Must("dnf install -y yum-utils device-mapper-persistent-data lvm2",
                TRUE, "failed to install prerequisites",
                "prerequisite installation failed"),
           Must("dnf config-manager --add-repo https://download.docker.com/linux/centos/docker-ce.repo",
                TRUE, "failed to add Docker repository",
                "Docker repository setup failed"),
           Must("dnf install -y docker-ce docker-ce-cli containerd.io",
                TRUE, "failed to install Docker",
                "Docker installation failed") >>
        \o DockerService

\* pkg.FirewallRule values given to ConfigureFirewall.
FirewallRules ==
    { [Port |-> 22, Protocol |-> "tcp", Source |-> "any", Action |-> "allow"],
      [Port |-> 53, Protocol |-> "tcp/udp", Source |-> "10.0.0.5",
       Action |-> "allow"],
      [Port |-> 443, Protocol |-> "tcp/udp", Source |-> "any",
       Action |-> "deny"],
      [Port |-> 8080, Protocol |-> "", Source |-> "", Action |-> "deny"] }

\* The rule lists given to ConfigureFirewall, the empty list among them.
MaxRules == 2
RuleLists == UNION { [1..n -> FirewallRules] : n \in 0..MaxRules }

\* addFirewallRule: the commands it gives to Execute for one rule, in order.
\* RockyOperations calls itself for tcp and then for udp on "tcp/udp".
RECURSIVE AddFirewallRule(_, _)
AddFirewallRule(family, rule) ==
    LET protocol == IF rule.Protocol = "" THEN "tcp" ELSE rule.Protocol
        action == IF rule.Action = "deny" THEN "deny" ELSE "allow"
    IN IF family = "rocky"
       THEN IF protocol = "tcp/udp"
            THEN AddFirewallRule(family, [rule EXCEPT !.Protocol = "tcp"])
                 \o AddFirewallRule(family, [rule EXCEPT !.Protocol = "udp"])
            ELSE IF rule.Source = "any" \/ rule.Source = ""
            THEN << "firewall-cmd --add-port=" \o Itoa(rule.Port) \o "/"
                        \o protocol >>
            ELSE << "firewall-cmd --add-rich-rule='rule family=\"ipv4\" source address=\""
                        \o rule.Source \o "\" port protocol=\"" \o protocol
                        \o "\" port=\"" \o Itoa(rule.Port) \o "\" "
                        \o (IF rule.Action = "deny" THEN "reject" ELSE "accept")
                        \o "'" >>
       ELSE IF rule.Source = "any" \/ rule.Source = ""
            THEN << "ufw " \o action \o " " \o Itoa(rule.Port) \o "/"
                        \o protocol >>
            ELSE << "ufw " \o action \o " from " \o rule.Source
                        \o " to any port " \o Itoa(rule.Port) \o " proto "
                        \o protocol >>

\* The calls of addFirewallRule for one rule, as ConfigureFirewall checks
\* them: its error is wrapped with the rule's port.
RuleSteps(family, rule) ==
    LET cmds == AddFirewallRule(family, rule)
        tool == IF family = "rocky" THEN "firewalld" ELSE "UFW"
        wrap == "failed to add firewall rule for port " \o Itoa(rule.Port)
                    \o ": "
    IN [k \in 1..Len(cmds) |->
           Must(cmds[k], TRUE,
                wrap \o "failed to execute " \o tool \o " command",
                wrap \o tool \o " command failed")]

\* for _, rule := range rules { addFirewallRule(ctx, rule) }
RECURSIVE RulesSteps(_, _)
RulesSteps(family, rules) ==
    IF rules = << >> THEN << >>
    ELSE RuleSteps(family, Head(rules)) \o RulesSteps(family, Tail(rules))

\* ConfigureFirewall: the steps between the installation of the tool and
\* the rules.
FirewallBaseline(family) ==
    IF family = "rocky"
    THEN << ErrOnly("systemctl start firewalld", TRUE,
                    "failed to start firewalld"),
            ErrOnly("systemctl enable firewalld", TRUE,
                    "failed to enable firewalld"),
            ErrOnly("firewall-cmd --set-default-zone=public", TRUE,
                    "failed to set default zone"),
            ErrOnly("firewall-cmd --complete-reload", TRUE,
                    "failed to reload firewall") >>
    ELSE << ErrOnly("ufw --force reset", TRUE, "failed to reset UFW"),
            ErrOnly("ufw default deny incoming", TRUE,
                    "failed to set default deny incoming"),
            ErrOnly("ufw default allow outgoing", TRUE,
                    "failed to set default allow outgoing") >>

ConfigureFirewall(family, rules) ==
    IF family = "rocky"
    THEN << Branch("which firewall-cmd", FALSE, "unless"),
            Must("dnf install -y firewalld", TRUE,
                 "failed to install firewalld",
                 "firewalld installation failed") >>
         \o FirewallBaseline(family)
         \o RulesSteps(family, rules)
         \o << ErrOnly("firewall-cmd --runtime-to-permanent", TRUE,
                       "failed to make firewall rules permanent"),
               ErrOnly("firewall-cmd --reload", TRUE,
                       "failed to reload firewall") >>
    ELSE << Branch("which ufw", FALSE, "unless"),
            Must("apt-get update && apt-get install -y ufw", TRUE,
                 "failed to install UFW", "UFW installation failed") >>
         \o FirewallBaseline(family)
         \o RulesSteps(family, rules)
         \o << Must("ufw --force enable", TRUE,
                    "failed to enable UFW", "UFW enable failed") >>

UpdateSystem(family) ==
    IF family = "rocky"
    THEN << Must("dnf upgrade -y", TRUE,
                 "failed to update packages", "package update failed") >>
    ELSE << Must("apt-get update", TRUE,
                 "failed to update package lists",
                 "package list update failed"),
            Must("DEBIAN_FRONTEND=noninteractive apt-get upgrade -y", TRUE,
                 "failed to upgrade packages", "package upgrade failed") >>

\* In RockyOperations the second command is a here-document that carries
\* the text of /etc/dnf/automatic.conf; the model keeps its first line.
ConfigureAutomaticUpdates(family) ==
    IF family = "rocky"
    THEN << Must("dnf install -y dnf-automatic", TRUE,
                 "failed to install dnf-automatic",
                 "dnf-automatic installation failed"),
            Must("cat << 'EOF' | sudo tee /etc/dnf/automatic.conf > /dev/null",
                 FALSE, "failed to configure dnf-automatic",
                 "dnf-automatic configuration failed"),
            ErrOnly("systemctl enable dnf-automatic.timer", TRUE,
                    "failed to enable dnf-automatic timer"),
            ErrOnly("systemctl start dnf-automatic.timer", TRUE,
                    "failed to start dnf-automatic timer") >>
    ELSE << Must("apt-get install -y unattended-upgrades", TRUE,
                 "failed to install unattended-upgrades",
                 "unattended-upgrades installation failed"),
            ErrOnly("dpkg-reconfigure -plow unattended-upgrades", TRUE,
                    "failed to configure unattended-upgrades"),
            ErrOnly("systemctl enable unattended-upgrades", TRUE,
                    "failed to enable unattended-upgrades service"),
            ErrOnly("systemctl start unattended-upgrades", TRUE,
                    "failed to start unattended-upgrades service") >>

\* HardenSSH: the substitutions of its `hardening` list.
Hardening ==
    << [pat |-> "#PermitRootLogin yes", rep |-> "PermitRootLogin no"],
       [pat |-> "#PasswordAuthentication yes",
        rep |-> "PasswordAuthentication no"],
       [pat |-> "#PubkeyAuthentication yes",
        rep |-> "PubkeyAuthentication yes"],
       [pat |-> "#Protocol 2", rep |-> "Protocol 2"],
       [pat |-> "#X11Forwarding yes", rep |-> "X11Forwarding no"] >>

SedCommand(h) ==
    "sed -i 's/" \o h.pat \o "/" \o h.rep \o "/' /etc/ssh/sshd_config"

BackupCommand == "cp /etc/ssh/sshd_config /etc/ssh/sshd_config.backup"
TestCommand == "sshd -t"
RestartCommand == "systemctl restart sshd"

\* Variant of SyntaxCheck: the exit status of `sshd -t` is not tested.
SyntaxCheckErrOnly ==
    ErrOnly(TestCommand, TRUE, "failed to test SSH configuration")

\* HardenSSH: the test of the edited configuration.
SyntaxCheck ==
    Must(TestCommand, TRUE, "failed to test SSH configuration",
         "SSH configuration test failed")

\* HardenSSH is the same in the three families.
HardenSSH(family) ==
    << ErrOnly(BackupCommand, TRUE, "failed to backup SSH config") >>
    \o [k \in 1..Len(Hardening) |->
           Must(SedCommand(Hardening[k]), TRUE,
                "failed to apply SSH hardening",
                "SSH hardening command failed")]
    \o << SyntaxCheck,
          Must(RestartCommand, TRUE, "failed to restart SSH service",
               "SSH service restart failed") >>

\* GetDockerStatus: the error of Execute is returned as it is, the exit
\* status only changes the status text.
GetDockerStatus(family) ==
    << ErrOnly("systemctl is-active docker", FALSE, "") >>

\* The Execute calls of an operation, in the order of its code.
Program(family, o, rules) ==
    CASE o = "InstallDocker" -> InstallDocker(family)
      [] o = "ConfigureFirewall" -> ConfigureFirewall(family, rules)
      [] o = "UpdateSystem" -> UpdateSystem(family)
      [] o = "ConfigureAutomaticUpdates" -> ConfigureAutomaticUpdates(family)
      [] o = "HardenSSH" -> HardenSSH(family)
      [] o = "GetDockerStatus" -> GetDockerStatus(family)

\* What Execute hands back: exit status 0, a non-zero exit status, or an
\* error; `whoami` with exit status 0 prints root or the login user.
StepKinds == {"ok", "root", "exit", "err"}
StepOutcomes(step) ==
    IF step.cmd = "whoami" THEN {"ok", "root", "exit", "err"}
    ELSE {"ok", "exit", "err"}

\* err.Error() of a failed Execute, and result.Stderr of a failed command.
StepErr == NotConnectedErr
StepStderr == "permission denied"

\* The error an operation returns after a step whose Execute returned the
\* error execErr (out = "err") or a result (the other outcomes), NoErr when
\* it goes on.
StepErrorOf(step, out, execErr) ==
    IF out = "err" /\ step.check \in {"both", "err"}
    THEN IF step.errmsg = "" THEN execErr ELSE step.errmsg \o ": " \o execErr
    ELSE IF out = "exit" /\ step.check = "both"
    THEN step.exitmsg \o ": " \o StepStderr
    ELSE NoErr

\* The same on a handle that is not connected.
StepError(step, out) == StepErrorOf(step, out, StepErr)

\* The step that follows step i; 0 when the operation returns.
StepAfter(program, i, out) ==
    LET step == program[i]
        next == CASE step.check = "ifok" ->
                        IF out = "ok" THEN i + 1 ELSE i + 2
                  [] step.check = "unless" ->
                        IF out = "ok" THEN i + 2 ELSE i + 1
                  [] step.check = "done" ->
                        IF out = "ok" THEN 0 ELSE i + 1
                  [] OTHER -> i + 1
    IN IF StepError(step, out) # NoErr \/ next > Len(program) THEN 0
       ELSE next

\* strings.Index(s, sub), counted from 1; 0 when sub is not in s.
Index(s, sub) ==
    IF \E i \in 1..(Len(s) - Len(sub) + 1) :
           SubSeq(s, i, i + Len(sub) - 1) = sub
    THEN CHOOSE i \in 1..(Len(s) - Len(sub) + 1) :
           /\ SubSeq(s, i, i + Len(sub) - 1) = sub
           /\ \A j \in 1..(i - 1) : SubSeq(s, j, j + Len(sub) - 1) # sub
    ELSE 0

\* sed 's/pat/rep/' on a file: the first match of each line is replaced.
Sed(h, file) ==
    [k \in 1..Len(file) |->
        LET line == file[k]
            at == Index(line, h.pat)
        IN IF at = 0 THEN line
           ELSE SubSeq(line, 1, at - 1) \o h.rep
                    \o SubSeq(line, at + Len(h.pat), Len(line))]

\* /etc/ssh/sshd_config on the host before the first call: the lines of a
\* stock file, and a file that is hardened already.
SshdConfigs ==
    { << "Port 22", "#PermitRootLogin yes", "#PasswordAuthentication yes",
         "#X11Forwarding yes" >>,
      << "Port 22", "PermitRootLogin no", "PasswordAuthentication no" >> }

\* No backup file.
NoFile == << "<absent>" >>

\* /etc/ssh/sshd_config after a command that exited with status 0.
ConfigAfter(cmd, file) ==
    IF \E k \in 1..Len(Hardening) : cmd = SedCommand(Hardening[k])
    THEN Sed(Hardening[CHOOSE k \in 1..Len(Hardening) :
                          cmd = SedCommand(Hardening[k])], file)
    ELSE file

\* No operation has been called on the capability set.
DistroIdle ==
    /\ dop = "" /\ drules = << >> /\ dpc = 0 /\ dlog = << >>
    /\ dret = Empty
    /\ sshdBackup = NoFile
    /\ sshdBefore = sshdConfig

\* An operation of the capability set is called.  One behaviour calls one
\* operation, any number of times.
DistroCall(o, rules) ==
    /\ dpc = 0
    /\ dop \in {"", o}
    /\ o # "ConfigureFirewall" => rules = << >>
    /\ dop' = o
    /\ drules' = rules
    /\ dpc' = 1
    /\ dlog' = << >>
    /\ dret' = Empty
    /\ sshdBefore' = sshdConfig
    /\ UNCHANGED << dfamily, sshdConfig, sshdBackup >>
    /\ UNCHANGED << cvars, hvars, mvars, fvars, pvars >>

\* The operation's next Execute, and the return that follows it when the
\* code returns.
DistroExecute ==
    /\ dpc > 0
    /\ LET program == Program(dfamily, dop, drules)
           step == program[dpc]
       IN \E out \in StepOutcomes(step) :
             /\ dlog' = Append(dlog, [cmd |-> step.cmd, sudo |-> step.sudo,
                                      check |-> step.check, out |-> out])
             /\ dpc' = StepAfter(program, dpc, out)
             /\ dret' = IF StepAfter(program, dpc, out) = 0
                        THEN [err |-> StepError(step, out)]
                        ELSE dret
             /\ sshdConfig' = IF out = "ok"
                              THEN ConfigAfter(step.cmd, sshdConfig)
                              ELSE sshdConfig
             /\ sshdBackup' = IF out = "ok" /\ step.cmd = BackupCommand
                              THEN sshdConfig
                              ELSE sshdBackup
    /\ UNCHANGED << dfamily, dop, drules, sshdBefore >>
    /\ UNCHANGED << cvars, hvars, mvars, fvars, pvars >>

\* A capability set of some family on a host, and a coordinator, a handle
\* and a manager that stay idle.
DistroInit ==
    /\ sudoAllowed = FALSE
    /\ NewSSHServer
    /\ NewManager("")
    /\ cfg = << "web" >>
    /\ ManagerIdle
    /\ NoFactory
    /\ NoProvision
    /\ dfamily \in Families
    /\ sshdConfig \in SshdConfigs
    /\ DistroIdle

DistroNext ==
    \/ \E o \in Operations, rules \in RuleLists : DistroCall(o, rules)
    \/ DistroExecute

DistroSpec == DistroInit /\ [][DistroNext]_vars

(***************************************************************************)
(* ServerFactory.CreateServerWithDistroDetection and SSHServer.GetDistro    *)
(***************************************************************************)

UpperCase == "ABCDEFGHIJKLMNOPQRSTUVWXYZ"
LowerCase == "abcdefghijklmnopqrstuvwxyz"

\* unicode.ToLower on the ASCII capitals.
LowerOf ==
    [c \in {SubSeq(UpperCase, k, k) : k \in 1..Len(UpperCase)} |->
        LET at == Index(UpperCase, c) IN SubSeq(LowerCase, at, at)]

HexDigits == "0123456789ABCDEF"

\* The code point written in the hex digits h of an escape.
RECURSIVE HexValue(_)
HexValue(h) ==
    IF h = "" THEN 0
    ELSE HexValue(SubSeq(h, 1, Len(h) - 1)) * 16
            + Index(HexDigits, SubSeq(h, Len(h), Len(h))) - 1

\* The last `width` hex digits of n.
RECURSIVE HexText(_, _)
HexText(n, width) ==
    IF width = 0 THEN ""
    ELSE HexText(n \div 16, width - 1)
            \o SubSeq(HexDigits, (n % 16) + 1, (n % 16) + 1)

\* unicode.CaseRanges, the lower-case deltas outside ASCII: the code
\* points lo, lo + stride, ..., hi have their lower case delta further on.
LowerRanges ==
    << << 192, 214, 1, 32 >>, << 216, 222, 1, 32 >>, << 256, 302, 2, 1 >>,
      << 304, 304, 1, -199 >>, << 306, 310, 2, 1 >>, << 313, 327, 2, 1 >>,
      << 330, 374, 2, 1 >>, << 376, 376, 1, -121 >>, << 377, 381, 2, 1 >>,
      << 385, 385, 1, 210 >>, << 386, 388, 2, 1 >>, << 390, 390, 1, 206 >>,
      << 391, 391, 1, 1 >>, << 393, 394, 1, 205 >>, << 395, 395, 1, 1 >>,
      << 398, 398, 1, 79 >>, << 399, 399, 1, 202 >>, << 400, 400, 1, 203 >>,
      << 401, 401, 1, 1 >>, << 403, 403, 1, 205 >>, << 404, 404, 1, 207 >>,
      << 406, 406, 1, 211 >>, << 407, 407, 1, 209 >>, << 408, 408, 1, 1 >>,
      << 412, 412, 1, 211 >>, << 413, 413, 1, 213 >>, << 415, 415, 1, 214 >>,
      << 416, 420, 2, 1 >>, << 422, 422, 1, 218 >>, << 423, 423, 1, 1 >>,
      << 425, 425, 1, 218 >>, << 428, 428, 1, 1 >>, << 430, 430, 1, 218 >>,
      << 431, 431, 1, 1 >>, << 433, 434, 1, 217 >>, << 435, 437, 2, 1 >>,
      << 439, 439, 1, 219 >>, << 440, 440, 1, 1 >>, << 444, 444, 1, 1 >>,
      << 452, 452, 1, 2 >>, << 453, 453, 1, 1 >>, << 455, 455, 1, 2 >>,
      << 456, 456, 1, 1 >>, << 458, 458, 1, 2 >>, << 459, 475, 2, 1 >>,
      << 478, 494, 2, 1 >>, << 497, 497, 1, 2 >>, << 498, 500, 2, 1 >>,
      << 502, 502, 1, -97 >>, << 503, 503, 1, -56 >>, << 504, 542, 2, 1 >>,
      << 544, 544, 1, -130 >>, << 546, 562, 2, 1 >>, << 570, 570, 1, 10795 >>,
      << 571, 571, 1, 1 >>, << 573, 573, 1, -163 >>, << 574, 574, 1, 10792 >>,
      << 577, 577, 1, 1 >>, << 579, 579, 1, -195 >>, << 580, 580, 1, 69 >>,
      << 581, 581, 1, 71 >>, << 582, 590, 2, 1 >>, << 880, 882, 2, 1 >>,
      << 886, 886, 1, 1 >>, << 895, 895, 1, 116 >>, << 902, 902, 1, 38 >>,
      << 904, 906, 1, 37 >>, << 908, 908, 1, 64 >>, << 910, 911, 1, 63 >>,
      << 913, 929, 1, 32 >>, << 931, 939, 1, 32 >>, << 975, 975, 1, 8 >>,
      << 984, 1006, 2, 1 >>, << 1012, 1012, 1, -60 >>, << 1015, 1015, 1, 1 >>,
      << 1017, 1017, 1, -7 >>, << 1018, 1018, 1, 1 >>,
      << 1021, 1023, 1, -130 >>, << 1024, 1039, 1, 80 >>,
      << 1040, 1071, 1, 32 >>, << 1120, 1152, 2, 1 >>, << 1162, 1214, 2, 1 >>,
      << 1216, 1216, 1, 15 >>, << 1217, 1229, 2, 1 >>, << 1232, 1326, 2, 1 >>,
      << 1329, 1366, 1, 48 >>, << 4256, 4293, 1, 7264 >>,
      << 4295, 4295, 1, 7264 >>, << 4301, 4301, 1, 7264 >>,
      << 5024, 5103, 1, 38864 >>, << 5104, 5109, 1, 8 >>,
      << 7312, 7354, 1, -3008 >>, << 7357, 7359, 1, -3008 >>,
      << 7680, 7828, 2, 1 >>, << 7838, 7838, 1, -7615 >>,
      << 7840, 7934, 2, 1 >>, << 7944, 7951, 1, -8 >>,
      << 7960, 7965, 1, -8 >>, << 7976, 7983, 1, -8 >>,
      << 7992, 7999, 1, -8 >>, << 8008, 8013, 1, -8 >>,
      << 8025, 8031, 2, -8 >>, << 8040, 8047, 1, -8 >>,
      << 8072, 8079, 1, -8 >>, << 8088, 8095, 1, -8 >>,
      << 8104, 8111, 1, -8 >>, << 8120, 8121, 1, -8 >>,
      << 8122, 8123, 1, -74 >>, << 8124, 8124, 1, -9 >>,
      << 8136, 8139, 1, -86 >>, << 8140, 8140, 1, -9 >>,
      << 8152, 8153, 1, -8 >>, << 8154, 8155, 1, -100 >>,
      << 8168, 8169, 1, -8 >>, << 8170, 8171, 1, -112 >>,
      << 8172, 8172, 1, -7 >>, << 8184, 8185, 1, -128 >>,
      << 8186, 8187, 1, -126 >>, << 8188, 8188, 1, -9 >>,
      << 8486, 8486, 1, -7517 >>, << 8490, 8490, 1, -8383 >>,
      << 8491, 8491, 1, -8262 >>, << 8498, 8498, 1, 28 >>,
      << 8544, 8559, 1, 16 >>, << 8579, 8579, 1, 1 >>,
      << 9398, 9423, 1, 26 >>, << 11264, 11311, 1, 48 >>,
      << 11360, 11360, 1, 1 >>, << 11362, 11362, 1, -10743 >>,
      << 11363, 11363, 1, -3814 >>, << 11364, 11364, 1, -10727 >>,
      << 11367, 11371, 2, 1 >>, << 11373, 11373, 1, -10780 >>,
      << 11374, 11374, 1, -10749 >>, << 11375, 11375, 1, -10783 >>,
      << 11376, 11376, 1, -10782 >>, << 11378, 11378, 1, 1 >>,
      << 11381, 11381, 1, 1 >>, << 11390, 11391, 1, -10815 >>,
      << 11392, 11490, 2, 1 >>, << 11499, 11501, 2, 1 >>,
      << 11506, 11506, 1, 1 >>, << 42560, 42604, 2, 1 >>,
      << 42624, 42650, 2, 1 >>, << 42786, 42798, 2, 1 >>,
      << 42802, 42862, 2, 1 >>, << 42873, 42875, 2, 1 >>,
      << 42877, 42877, 1, -35332 >>, << 42878, 42886, 2, 1 >>,
      << 42891, 42891, 1, 1 >>, << 42893, 42893, 1, -42280 >>,
      << 42896, 42898, 2, 1 >>, << 42902, 42920, 2, 1 >>,
      << 42922, 42922, 1, -42308 >>, << 42923, 42923, 1, -42319 >>,
      << 42924, 42924, 1, -42315 >>, << 42925, 42925, 1, -42305 >>,
      << 42926, 42926, 1, -42308 >>, << 42928, 42928, 1, -42258 >>,
      << 42929, 42929, 1, -42282 >>, << 42930, 42930, 1, -42261 >>,
      << 42931, 42931, 1, 928 >>, << 42932, 42946, 2, 1 >>,
      << 42948, 42948, 1, -48 >>, << 42949, 42949, 1, -42307 >>,
      << 42950, 42950, 1, -35384 >>, << 42951, 42953, 2, 1 >>,
      << 42960, 42960, 1, 1 >>, << 42966, 42968, 2, 1 >>,
      << 42997, 42997, 1, 1 >>, << 65313, 65338, 1, 32 >>,
      << 66560, 66599, 1, 40 >>, << 66736, 66771, 1, 40 >>,
      << 66928, 66938, 1, 39 >>, << 66940, 66954, 1, 39 >>,
      << 66956, 66962, 1, 39 >>, << 66964, 66965, 1, 39 >>,
      << 68736, 68786, 1, 64 >>, << 71840, 71871, 1, 32 >>,
      << 93760, 93791, 1, 32 >>, << 125184, 125217, 1, 34 >> >>

\* unicode.ToLower on a code point outside ASCII.
LowerRune(n) ==
    LET hit == { k \in 1..Len(LowerRanges) :
                   /\ LowerRanges[k][1] <= n
                   /\ n <= LowerRanges[k][2]
                   /\ (n - LowerRanges[k][1]) % LowerRanges[k][3] = 0 }
    IN  IF hit = {} THEN n
        ELSE n + LowerRanges[CHOOSE k \in hit : TRUE][4]

\* How many characters the escape that starts the text takes: 6 for
\* \uXXXX, 10 for \UXXXXXXXX (a code point beyond U+FFFF), 0 when none
\* starts it.
EscapeAt(s) ==
    LET hex(from, to) ==
            \A k \in from..to : Index(HexDigits, SubSeq(s, k, k)) > 0
    IN  IF Len(s) >= 6 /\ SubSeq(s, 1, 2) = "\\u" /\ hex(3, 6) THEN 6
        ELSE IF Len(s) >= 10 /\ SubSeq(s, 1, 2) = "\\U" /\ hex(3, 10)
        THEN 10
        ELSE 0

\* The text of the code point n: the letter itself for a lower-case letter
\* of ASCII (the lower case of U+0130 and of U+212A), an escape otherwise.
RuneText(n) ==
    IF n \in 97..122 THEN SubSeq(LowerCase, n - 96, n - 96)
    ELSE IF n <= 65535 THEN "\\u" \o HexText(n, 4)
    ELSE "\\U" \o HexText(n, 8)

\* strings.ToLower(s): unicode.ToLower on every character, a character
\* written as an escape being lowered as its code point.
RECURSIVE ToLower(_)
ToLower(s) ==
    IF s = "" THEN ""
    ELSE IF EscapeAt(s) > 0
    THEN RuneText(LowerRune(HexValue(SubSeq(s, 3, EscapeAt(s)))))
             \o ToLower(SubSeq(s, EscapeAt(s) + 1, Len(s)))
    ELSE LET c == SubSeq(s, 1, 1)
         IN (IF c \in DOMAIN LowerOf THEN LowerOf[c] ELSE c)
                \o ToLower(SubSeq(s, 2, Len(s)))

\* strings.Trim(s, "\""): the double quotes at both ends are removed.
RECURSIVE TrimQuotes(_)
TrimQuotes(s) ==
    IF s # "" /\ SubSeq(s, 1, 1) = "\"" THEN TrimQuotes(SubSeq(s, 2, Len(s)))
    ELSE IF s # "" /\ SubSeq(s, Len(s), Len(s)) = "\""
    THEN TrimQuotes(SubSeq(s, 1, Len(s) - 1))
    ELSE s

HasPrefix(s, prefix) ==
    Len(s) >= Len(prefix) /\ SubSeq(s, 1, Len(prefix)) = prefix

\* GetDistro on the output of `cat /etc/os-release`: the lines that start
\* with "ID=", in order.
IdLines(stdout) == SelectSeq(SplitLines(stdout), LAMBDA l : HasPrefix(l, "ID="))

\* The marker files of GetDistro's distroFiles map, as the source lists them.
DistroFiles ==
    << [distro |-> "ubuntu", file |-> "/etc/lsb-release"],
       [distro |-> "debian", file |-> "/etc/debian_version"],
       [distro |-> "centos", file |-> "/etc/centos-release"],
       [distro |-> "rhel", file |-> "/etc/redhat-release"],
       [distro |-> "rocky", file |-> "/etc/rocky-release"],
       [distro |-> "alpine", file |-> "/etc/alpine-release"] >>

\* `for distro, file := range distroFiles` visits the keys of a Go map in an
\* order the language leaves open.  These orders start the list anywhere;
\* with them every key can be the first one whose file exists.
IterationOrders ==
    { [k \in 1..Len(DistroFiles) |->
          ((k + shift - 1) % Len(DistroFiles)) + 1]
      : shift \in 0..(Len(DistroFiles) - 1) }

\* The hosts GetDistro runs on: what `cat /etc/os-release` prints (absent:
\* cat exits 1), and the marker files that exist.
NoOsRelease == "<absent>"
OsReleases ==
    { NoOsRelease,
      "NAME=\"Ubuntu\"\nID=ubuntu\nID_LIKE=debian\n",
      "NAME=\"Rocky Linux\"\nID=\"Rocky\"\n",
      "NAME=Appliance\nID=\nVERSION_ID=7\n",
      "PRETTY_NAME=\"Custom\"\n" }
MarkerSets ==
    { {}, {"/etc/debian_version"},
      {"/etc/redhat-release", "/etc/rocky-release"} }

\* Which of the Executes of one GetDistro return a result: that of `cat`,
\* and that of `test -f` for each marker file.  The others return an error.
ExecuteRuns == [cat : BOOLEAN, test : [1..Len(DistroFiles) -> BOOLEAN]]

\* GetDistro on a host, runs saying which of its Executes return a result:
\* each Execute is tested by itself (err == nil && result.ExitCode == 0).
\* GetDistro returns no error.
GetDistro(osRelease, files, order, runs) ==
    LET Found(k) == /\ runs.test[order[k]]
                    /\ DistroFiles[order[k]].file \in files
    IN  IF runs.cat /\ osRelease # NoOsRelease /\ IdLines(osRelease) # << >>
        THEN ToLower(TrimQuotes(SubSeq(IdLines(osRelease)[1], 4,
                                       Len(IdLines(osRelease)[1]))))
        ELSE IF \E k \in 1..Len(order) : Found(k)
        THEN DistroFiles[order[CHOOSE k \in 1..Len(order) :
                /\ Found(k)
                /\ \A j \in 1..(k - 1) : ~Found(j)]].distro
        ELSE "unknown"

\* config.Server values given to the factory.
ServerConfigs ==
    { [Host |-> "app", SSHUser |-> "admin", SSHKey |-> "/k", SSHPort |-> 22,
       Sudo |-> TRUE, Distro |-> d, Nexus |-> "prod"] : d \in {"", "debian"} }
    \cup
    { [Host |-> "app", SSHUser |-> "admin", SSHKey |-> "", SSHPort |-> 22,
       Sudo |-> TRUE, Distro |-> "", Nexus |-> "prod"] }

\* CreateServer: the error for a configuration.
CreateServerError(config) ==
    IF config.Host = "" THEN "server host is required"
    ELSE IF config.SSHUser = "" THEN "SSH user is required"
    ELSE IF config.SSHKey = "" THEN "SSH key is required"
    ELSE NoErr

\* Variant of DetectionNeeded: the distribution is detected in every call.
DetectionAlways(config) == TRUE

\* CreateServerWithDistroDetection: `if config.Distro == ""`.
DetectionNeeded(config) == config.Distro = ""

\* The calls of one behaviour.
MaxCalls == 3

\* No call of the factory has been made.
FactoryIdle ==
    /\ fpc = "idle" /\ fret = Empty /\ fcalls = 0
    /\ fwrites = 0 /\ fconnects = 0 /\ fdetected = Empty
    /\ fconfig0 = fconfig /\ fbefore = fconfig

\* CreateServerWithDistroDetection(ctx, id, config) is called: CreateServer,
\* and the return when the distribution is declared.  The server is a new
\* handle on every call.
CreateServerWithDistroDetection ==
    /\ fpc \in {"idle", "returned"}
    /\ fcalls < MaxCalls
    /\ fcalls' = fcalls + 1
    /\ fbefore' = fconfig
    /\ fconnects' = 0
    /\ fdetected' = Empty
    /\ hclient' = 0 /\ hconn' = 0 /\ dialed' = FALSE
    /\ IF CreateServerError(fconfig) # NoErr
       THEN /\ fret' = [server |-> FALSE, err |-> CreateServerError(fconfig)]
            /\ fpc' = "returned"
       ELSE IF DetectionNeeded(fconfig)
       THEN /\ fret' = Empty
            /\ fpc' = "connect"
       ELSE /\ fret' = [server |-> TRUE, err |-> NoErr]
            /\ fpc' = "returned"
    /\ UNCHANGED << fconfig, fconfig0, fhost, fwrites >>
    /\ UNCHANGED << sudoAllowed, live, hcall, hpc, hctx, hdone, hkilled,
                    hended, hran,
                    hout, opened, hx, hrets, hret >>
    /\ UNCHANGED << cvars, mvars, dvars, pvars >>

\* server.Connect(ctx), and the return on its error.
FactoryConnect ==
    /\ fpc = "connect"
    /\ fconnects' = fconnects + 1
    /\ \E o \in ConnectOutcomes :
          LET c == Connect(hclient, hconn, live, o)
          IN /\ hclient' = c.client
             /\ hconn' = c.conn
             /\ live' = c.live
             /\ dialed' = c.dialed
             /\ IF c.err # NoErr
                THEN /\ fret' = [server |-> FALSE,
                                 err |-> "failed to connect for distro detection: "
                                             \o c.err]
                     /\ fpc' = "returned"
                ELSE /\ fpc' = "detect"
                     /\ UNCHANGED fret
    /\ UNCHANGED << fconfig, fconfig0, fbefore, fhost, fcalls, fwrites,
                    fdetected >>
    /\ UNCHANGED << sudoAllowed, hcall, hpc, hctx, hdone, hkilled, hended,
                    hran, hout,
                    opened, hx, hrets, hret >>
    /\ UNCHANGED << cvars, mvars, dvars, pvars >>

\* server.GetDistro(ctx) and config.Distro = distro.  GetDistro of SSHServer
\* returns a nil error in every case.
FactoryDetect ==
    /\ fpc = "detect"
    /\ \E order \in IterationOrders, runs \in ExecuteRuns :
          LET distro == GetDistro(fhost.osRelease, fhost.files, order, runs)
          IN /\ fdetected' = [distro |-> distro, runs |-> runs]
             /\ fconfig' = [fconfig EXCEPT !.Distro = distro]
    /\ fwrites' = fwrites + 1
    /\ fpc' = "disconnect"
    /\ UNCHANGED << fconfig0, fbefore, fhost, fcalls, fconnects, fret >>
    /\ UNCHANGED << hvars, cvars, mvars, dvars, pvars >>

\* The deferred server.Disconnect(), and the return of the server.
FactoryReturn ==
    /\ fpc = "disconnect"
    /\ \E e \in CloseErrors :
          LET d == Disconnect(hclient, hconn, live, e)
          IN /\ hclient' = d.client
             /\ hconn' = d.conn
             /\ live' = d.live
    /\ fret' = [server |-> TRUE, err |-> NoErr]
    /\ fpc' = "returned"
    /\ UNCHANGED << fconfig, fconfig0, fbefore, fhost, fcalls, fwrites,
                    fconnects, fdetected >>
    /\ UNCHANGED << sudoAllowed, dialed, hcall, hpc, hctx, hdone, hkilled, hended,
                    hran, hout, opened, hx, hrets, hret >>
    /\ UNCHANGED << cvars, mvars, dvars, pvars >>

\* A factory, one host and one host identity, beside a coordinator, a
\* manager and a capability set that stay idle.
FactoryInit ==
    /\ sudoAllowed = FALSE
    /\ NewSSHServer
    /\ NewManager("")
    /\ NoDistroCall
    /\ NoProvision
    /\ cfg = << "web" >>
    /\ ManagerIdle
    /\ fconfig \in ServerConfigs
    /\ fhost \in [osRelease : OsReleases, files : MarkerSets]
    /\ FactoryIdle

FactoryNext ==
    \/ CreateServerWithDistroDetection
    \/ FactoryConnect
    \/ FactoryDetect
    \/ FactoryReturn

FactorySpec == FactoryInit /\ [][FactoryNext]_vars

(***************************************************************************)
(* ServerFactory.ValidateServerConfig and GetDistroInfo, the dispatchers   *)
(* of the server commands, and initializeServer                            *)
(***************************************************************************)

\* %d of an int.
FormatInt(n) == IF n < 0 THEN "-" \o Itoa(0 - n) ELSE Itoa(n)

\* strings.Join(elems, sep).
RECURSIVE Join(_, _)
Join(elems, sep) ==
    IF elems = << >> THEN ""
    ELSE IF Len(elems) = 1 THEN elems[1]
    ELSE elems[1] \o sep \o Join(Tail(elems), sep)

\* ValidateServerConfig: supportedDistros.
SupportedDistros ==
    << "ubuntu", "debian", "centos", "rhel", "rocky", "fedora", "alpine",
       "unknown" >>

\* Variant of ValidateServerConfig: the port is not looked at.
ValidateServerConfigAnyPort(config) ==
    IF config.Host = "" THEN "host is required"
    ELSE IF config.SSHUser = "" THEN "ssh_user is required"
    ELSE IF config.SSHKey = "" THEN "ssh_key is required"
    ELSE IF /\ config.Distro # ""
            /\ \A k \in 1..Len(SupportedDistros) :
                  ToLower(config.Distro) # SupportedDistros[k]
    THEN "unsupported distribution: " \o config.Distro \o " (supported: "
            \o Join(SupportedDistros, ", ") \o ")"
    ELSE NoErr

\* ValidateServerConfig(config) for a config that is not nil: the error it
\* returns.
ValidateServerConfig(config) ==
    IF config.Host = "" THEN "host is required"
    ELSE IF config.SSHUser = "" THEN "ssh_user is required"
    ELSE IF config.SSHKey = "" THEN "ssh_key is required"
    ELSE IF /\ config.Distro # ""
            /\ \A k \in 1..Len(SupportedDistros) :
                  ToLower(config.Distro) # SupportedDistros[k]
    THEN "unsupported distribution: " \o config.Distro \o " (supported: "
            \o Join(SupportedDistros, ", ") \o ")"
    ELSE IF config.SSHPort < 0 \/ config.SSHPort > 65535
    THEN "invalid SSH port: " \o FormatInt(config.SSHPort)
            \o " (must be 1-65535 or 0 for default)"
    ELSE NoErr

NoInfo == [Name |-> "", Family |-> "", PackageManager |-> "",
           FirewallTool |-> "", ServiceManager |-> "", InitSystem |-> ""]

DistroInfo(title, family, pm, fw, sm, is) ==
    [Name |-> title, Family |-> family, PackageManager |-> pm,
     FirewallTool |-> fw, ServiceManager |-> sm, InitSystem |-> is]

\* GetDistroInfo(distro): [info, err], info = NoInfo for Go's nil.
GetDistroInfo(distro) ==
    LET d == ToLower(distro)
        systemd(title, family, pm, fw) ==
            [info |-> DistroInfo(title, family, pm, fw, "systemctl", "systemd"),
             err |-> NoErr]
    IN CASE d = "ubuntu" -> systemd("Ubuntu", "debian", "apt", "ufw")
         [] d = "debian" -> systemd("Debian", "debian", "apt", "ufw")
         [] d \in {"centos", "rhel"} ->
                systemd("CentOS/RHEL", "rhel", "yum", "firewalld")
         [] d = "rocky" -> systemd("Rocky Linux", "rhel", "dnf", "firewalld")
         [] d = "fedora" -> systemd("Fedora", "rhel", "dnf", "firewalld")
         [] d = "alpine" ->
                [info |-> DistroInfo("Alpine Linux", "alpine", "apk",
                                     "iptables", "rc-service", "openrc"),
                 err |-> NoErr]
         [] OTHER -> [info |-> NoInfo,
                      err |-> "unsupported distribution: " \o d]

\* The distribution identifiers of the configurations: the supported ones,
\* one in capitals, one that no list has, and none.
Identifiers ==
    {"", "ubuntu", "Ubuntu", "debian", "centos", "rhel", "rocky", "fedora",
     "alpine", "unknown", "arch"}

\* The SSH ports of the configurations, at and beside the ends of the range.
Ports == {0 - 1, 0, 22, 65535, 65536}

ProvisionConfig(host, user, key, port, distro) ==
    [Host |-> host, SSHUser |-> user, SSHKey |-> key, SSHPort |-> port,
     Sudo |-> TRUE, Distro |-> distro, Nexus |-> "prod"]

\* config.Server values given to the validation and to the server commands.
ProvisionConfigs ==
    { ProvisionConfig("app", "admin", "/k", 22, d) : d \in Identifiers }
    \cup { ProvisionConfig("app", "admin", "/k", p, d) :
              p \in Ports, d \in {"", "rocky", "arch"} }
    \cup { ProvisionConfig("", "admin", "/k", 22, "debian"),
           ProvisionConfig("app", "", "/k", 22, "debian"),
           ProvisionConfig("app", "admin", "", 22, "debian") }

\* factory.ValidateServerConfig(config) is called.
ValidateCall ==
    /\ vret = Empty
    /\ vret' = [err |-> ValidateServerConfig(fconfig)]
    /\ UNCHANGED << pinfo, pdispatcher, pdistro, pfirewall, ipc, iret, ilog >>
    /\ UNCHANGED << cvars, hvars, mvars, dvars, fvars >>

\* factory.GetDistroInfo(config.Distro) is called.
GetDistroInfoCall ==
    /\ pinfo = Empty
    /\ pinfo' = GetDistroInfo(fconfig.Distro)
    /\ UNCHANGED << vret, pdispatcher, pdistro, pfirewall, ipc, iret, ilog >>
    /\ UNCHANGED << cvars, hvars, mvars, dvars, fvars >>

\* The dispatchers of the server commands and the operation each one calls.
Dispatchers ==
    {"updateSystemPackages", "installDocker", "configureFirewall",
     "hardenSSH", "configureAutomaticUpdates", "getDockerStatus"}

DispatcherOperation(dispatcher) ==
    CASE dispatcher = "updateSystemPackages" -> "UpdateSystem"
      [] dispatcher = "installDocker" -> "InstallDocker"
      [] dispatcher = "configureFirewall" -> "ConfigureFirewall"
      [] dispatcher = "hardenSSH" -> "HardenSSH"
      [] dispatcher = "configureAutomaticUpdates" -> "ConfigureAutomaticUpdates"
      [] dispatcher = "getDockerStatus" -> "GetDockerStatus"

\* Variant of DispatcherCases: hardenSSH has no case for fedora.
DispatcherCasesLessFedora(dispatcher) ==
    << [ids |-> {"ubuntu"}, family |-> "ubuntu"],
       [ids |-> {"debian"}, family |-> "debian"],
       [ids |-> IF dispatcher = "hardenSSH"
                THEN {"rocky", "rhel", "centos"}
                ELSE {"rocky", "rhel", "centos", "fedora"},
        family |-> "rocky"] >>

\* The cases of `switch strings.ToLower(distro)` in a dispatcher, in order:
\* the six dispatchers have the same cases.
DispatcherCases(dispatcher) ==
    << [ids |-> {"ubuntu"}, family |-> "ubuntu"],
       [ids |-> {"debian"}, family |-> "debian"],
       [ids |-> {"rocky", "rhel", "centos", "fedora"}, family |-> "rocky"] >>

\* The capability set a dispatcher constructs for distro, or the error of
\* its default case.
SelectOperations(dispatcher, distro) ==
    LET cases == DispatcherCases(dispatcher)
        hit == { k \in 1..Len(cases) : ToLower(distro) \in cases[k].ids }
    IN IF hit = {}
       THEN [family |-> "", err |-> "unsupported distribution: " \o distro]
       ELSE [family |-> cases[CHOOSE k \in hit : \A j \in hit : k <= j].family,
             err |-> NoErr]

\* config.Firewall of the loaded configuration: the global rules and the
\* rules of the server.
ConfigFirewall ==
    [Global |-> << [Port |-> 22, Protocol |-> "tcp", From |-> "any"] >>,
     ServerSpecific |-> << [Port |-> 53, Protocol |-> "tcp/udp",
                            From |-> "10.0.0.5"] >>]

\* configureFirewall: the pkg.FirewallRule list it collects.
CollectRules(firewall) ==
    [k \in 1..(Len(firewall.Global) + Len(firewall.ServerSpecific)) |->
        LET rule == IF k <= Len(firewall.Global) THEN firewall.Global[k]
                    ELSE firewall.ServerSpecific[k - Len(firewall.Global)]
        IN [Port |-> rule.Port, Protocol |-> rule.Protocol,
            Source |-> rule.From, Action |-> "allow"]]

\* A dispatcher is called with the distribution of the configuration: it
\* returns the error of its default case, or constructs the capability set
\* and calls the operation.  One behaviour calls one dispatcher, any number
\* of times.
DispatcherCall(dispatcher) ==
    /\ dpc = 0
    /\ pdispatcher \in {"", dispatcher}
    /\ pdispatcher' = dispatcher
    /\ pdistro' = fconfig.Distro
    /\ dlog' = << >>
    /\ sshdBefore' = sshdConfig
    /\ LET sel == SelectOperations(dispatcher, fconfig.Distro)
       IN IF sel.err # NoErr
          THEN /\ dret' = [err |-> sel.err]
               /\ UNCHANGED << dfamily, dop, drules, dpc >>
          ELSE /\ dfamily' = sel.family
               /\ dop' = DispatcherOperation(dispatcher)
               /\ drules' = IF dispatcher = "configureFirewall"
                            THEN CollectRules(pfirewall)
                            ELSE << >>
               /\ dpc' = 1
               /\ dret' = Empty
    /\ UNCHANGED << sshdConfig, sshdBackup >>
    /\ UNCHANGED << vret, pinfo, pfirewall, ipc, iret, ilog >>
    /\ UNCHANGED << cvars, hvars, mvars, fvars >>

\* A configuration, the validation and the dispatchers of the server
\* commands, on a host with a stock sshd_config.
ProvisionInit ==
    /\ sudoAllowed = FALSE
    /\ NewSSHServer
    /\ NewManager("")
    /\ cfg = << "web" >>
    /\ ManagerIdle
    /\ ProvisionIdle
    /\ pfirewall = ConfigFirewall
    /\ fconfig \in ProvisionConfigs
    /\ fhost = Empty
    /\ FactoryIdle
    /\ dfamily = "debian"
    /\ sshdConfig = << "Port 22", "#PermitRootLogin yes",
                       "#PasswordAuthentication yes", "#X11Forwarding yes" >>
    /\ DistroIdle

ProvisionNext ==
    \/ ValidateCall
    \/ GetDistroInfoCall
    \/ \E dispatcher \in Dispatchers : DispatcherCall(dispatcher)
    \/ DistroExecute

ProvisionSpec == ProvisionInit /\ [][ProvisionNext]_vars

\* The error an operation returns on a handle without a client: each of its
\* Executes returns "not connected to server".
RECURSIVE ReturnsNotConnected(_, _)
ReturnsNotConnected(program, i) ==
    IF StepAfter(program, i, "err") = 0 THEN StepError(program[i], "err")
    ELSE ReturnsNotConnected(program, StepAfter(program, i, "err"))

\* What an operation does on a connected handle, from its step i on, with
\* the host's sshd_config and its backup as given: the error it returns
\* (NoErr, or the error of the step at which it stops; the Execute of a
\* step fails there when no session can be opened) and the two files as
\* its commands leave them.
RECURSIVE OperationOutcomes(_, _, _, _)
OperationOutcomes(program, i, config, backup) ==
    UNION { LET step == program[i]
                after == IF out = "ok" THEN ConfigAfter(step.cmd, config)
                         ELSE config
                saved == IF out = "ok" /\ step.cmd = BackupCommand
                         THEN config ELSE backup
            IN  IF StepAfter(program, i, out) = 0
                THEN { [err |-> StepErrorOf(step, out, SessionErr),
                        config |-> after, backup |-> saved] }
                ELSE OperationOutcomes(program, StepAfter(program, i, out),
                                       after, saved) :
            out \in StepOutcomes(program[i]) }

\* The steps of initializeServer after the health check, in order: the
\* dispatcher of each, the text its error is wrapped in, whether
\* initializeServer returns on its error, and whether the step is run only
\* for a configuration with a firewall section.
InitializeSteps ==
    << [pc |-> "update", dispatcher |-> "updateSystemPackages",
        wrap |-> "failed to update system packages: ", fatal |-> TRUE,
        guarded |-> FALSE],
       [pc |-> "docker", dispatcher |-> "installDocker",
        wrap |-> "failed to install Docker: ", fatal |-> TRUE,
        guarded |-> FALSE],
       [pc |-> "firewall", dispatcher |-> "configureFirewall",
        wrap |-> "failed to configure firewall: ", fatal |-> TRUE,
        guarded |-> TRUE],
       [pc |-> "ssh", dispatcher |-> "hardenSSH", wrap |-> "",
        fatal |-> FALSE, guarded |-> FALSE],
       [pc |-> "auto", dispatcher |-> "configureAutomaticUpdates",
        wrap |-> "", fatal |-> FALSE, guarded |-> FALSE] >>

\* The step after step k for config.Firewall = firewall: the firewall step
\* is passed over when `config.Firewall != nil` is false.
RECURSIVE PcAfter(_, _)
PcAfter(k, firewall) ==
    IF k >= Len(InitializeSteps) THEN "returned"
    ELSE IF InitializeSteps[k + 1].guarded /\ firewall = Empty
         THEN PcAfter(k + 1, firewall)
         ELSE InitializeSteps[k + 1].pc

\* Execute's test of the handle: s.client != nil.
HandleConnected(c) == c # 0

\* initializeServer(serverName), from the return of
\* CreateServerWithDistroDetection on: the health check, the five
\* provisioning steps with what their commands do to the host's files, and
\* the deferred srv.Disconnect() at its return.
InitializeServer ==
    /\ fpc = "returned"
    /\ ipc # "returned"
    /\ LET connected == HandleConnected(hclient)
           returns(e) ==
               /\ ipc' = "returned"
               /\ iret' = [err |-> e]
               /\ \E closeErr \in CloseErrors :
                     LET d == Disconnect(hclient, hconn, live, closeErr)
                     IN /\ hclient' = d.client
                        /\ hconn' = d.conn
                        /\ live' = d.live
           goesOn(next) ==
               /\ ipc' = next
               /\ UNCHANGED << iret, hclient, hconn, live >>
       IN CASE ipc = "idle" ->
                 /\ UNCHANGED << ilog, sshdConfig, sshdBackup >>
                 /\ IF fret.err # NoErr
                    THEN /\ ipc' = "returned"
                         /\ iret' = [err |-> "failed to create server instance: "
                                                \o fret.err]
                         /\ UNCHANGED << hclient, hconn, live >>
                    ELSE goesOn("health")
            [] ipc = "health" ->
                 /\ UNCHANGED << sshdConfig, sshdBackup >>
                 /\ ilog' = Append(ilog, [step |-> "HealthCheck",
                                          connected |-> connected])
                 /\ \E herr \in
                          (IF connected
                           THEN { HealthCheck(ExecuteResult(o), NoErr) :
                                      o \in HandleOutcomes("health") }
                                \cup {HealthCheck(NilResult, SessionErr)}
                           ELSE {HealthCheck(NilResult, NotConnectedErr)}) :
                       IF herr # NoErr
                          THEN returns("health check failed: " \o herr)
                          ELSE goesOn(PcAfter(0, pfirewall))
            [] OTHER ->
                 LET k == CHOOSE j \in 1..Len(InitializeSteps) :
                              InitializeSteps[j].pc = ipc
                     step == InitializeSteps[k]
                     sel == SelectOperations(step.dispatcher, fconfig.Distro)
                     o == DispatcherOperation(step.dispatcher)
                     rules == IF o = "ConfigureFirewall"
                              THEN CollectRules(pfirewall) ELSE << >>
                 IN /\ ilog' = IF sel.err # NoErr THEN ilog
                               ELSE Append(ilog, [step |-> o,
                                                  connected |-> connected])
                    /\ \E r \in (IF sel.err # NoErr
                                THEN {[err |-> sel.err,
                                       config |-> sshdConfig,
                                       backup |-> sshdBackup]}
                                ELSE IF connected
                                THEN OperationOutcomes(
                                         Program(sel.family, o, rules), 1,
                                         sshdConfig, sshdBackup)
                                ELSE {[err |-> ReturnsNotConnected(
                                           Program(sel.family, o, rules), 1),
                                       config |-> sshdConfig,
                                       backup |-> sshdBackup]}) :
                          /\ sshdConfig' = r.config
                          /\ sshdBackup' = r.backup
                          /\ IF r.err # NoErr /\ step.fatal
                             THEN returns(step.wrap \o r.err)
                             ELSE IF PcAfter(k, pfirewall) = "returned"
                             THEN returns(NoErr)
                             ELSE goesOn(PcAfter(k, pfirewall))
    /\ UNCHANGED << vret, pinfo, pdispatcher, pdistro, pfirewall >>
    /\ UNCHANGED << sudoAllowed, hcall, hpc, hctx, hdone, hkilled, hended,
                    hran, hout, opened, dialed, hx, hrets, hret >>
    /\ UNCHANGED << dfamily, dop, drules, dpc, dlog, dret, sshdBefore >>
    /\ UNCHANGED << cvars, mvars, fvars >>

\* The configurations of the servers that initializeServer is run for.
InitializeConfigs ==
    { ProvisionConfig("app", "admin", "/k", 22, d) :
         d \in {"", "debian", "Ubuntu", "rocky", "alpine"} }
    \cup { ProvisionConfig("app", "admin", "", 22, "") }

\* `mah server init <server-name>` for a configured server: a factory, one
\* host and its configuration.
InitializeInit ==
    /\ sudoAllowed = FALSE
    /\ NewSSHServer
    /\ NewManager("")
    /\ NoDistroCall
    /\ ProvisionIdle
    /\ pfirewall \in {Empty, ConfigFirewall}
    /\ cfg = << "web" >>
    /\ ManagerIdle
    /\ fconfig \in InitializeConfigs
    /\ fhost \in [osRelease : OsReleases, files : MarkerSets]
    /\ FactoryIdle

\* The call of CreateServerWithDistroDetection that initializeServer makes,
\* and what follows its return.
InitializeNext ==
    \/ fcalls = 0 /\ CreateServerWithDistroDetection
    \/ FactoryConnect
    \/ FactoryDetect
    \/ FactoryReturn
    \/ InitializeServer

InitializeSpec == InitializeInit /\ [][InitializeNext]_vars

(***************************************************************************)
(* Properties                                                              *)
(***************************************************************************)

\* The call went past Get and has returned.
ExecuteOnNexusDone ==
    pc = "done" /\ op = "ExecuteOnNexus" /\ name = ConfiguredNexus

StatusDone ==
    pc = "done" /\ op = "Status" /\ name = ConfiguredNexus

\* Host tasks whose HealthCheck succeeded.
HealthyTasks == { i \in Tasks : hc[i] = "ok" }

\* Host tasks whose Execute returned an error.
FailedTasks == { i \in Tasks : xret[i] # Empty /\ xret[i].err # NoErr }

\* C1: the map returned by ExecuteOnNexus has exactly N entries, one keyed
\* by the identity of each of the N member hosts.
C1_MapHasOneEntryPerMember ==
    ExecuteOnNexusDone =>
        /\ DOMAIN ret.value = { ServerID(i) : i \in Tasks }
        /\ Cardinality(DOMAIN ret.value) = N

\* C2: Status returns Healthy = true if and only if the HealthCheck of
\* every member host succeeded.
C2_HealthyIffAllHealthChecksSucceed ==
    StatusDone => (ret.value.Healthy <=> HealthyTasks = Tasks)

\* C3: after Status, ServersTotal is the number of member hosts and
\* ServersOnline is the number of member hosts whose HealthCheck succeeded,
\* which is the number of ServerStatuses entries with Online = true.
C3_OnlineCountsHealthyHosts ==
    StatusDone =>
        /\ ret.value.ServersTotal = N
        /\ ret.value.ServersOnline = Cardinality(HealthyTasks)
        /\ ret.value.ServersOnline =
             Cardinality({ k \in DOMAIN ret.value.ServerStatuses :
                             ret.value.ServerStatuses[k].Online })

\* C4: no two host tasks write the same shared variable; here, the counter
\* status.ServersOnline is not written by two different host tasks.
C4_NoVariableWrittenByTwoTasks ==
    \A i, j \in onlineWriters : i = j

\* What an Execute may return to a host task: the mockServer's value, and
\* every return of SSHServer.Execute (no client, no session, a done
\* context, a command that ended).
ExecuteOutcomes ==
    { MockExecute(CallCommand, CallSudo),
      [result |-> NilResult, err |-> NotConnectedErr],
      [result |-> NilResult, err |-> SessionErr] }
    \cup { [result |-> ExecuteCanceled(e).result,
            err |-> ExecuteCanceled(e).err] : e \in CtxErrors }
    \cup { [result |-> ExecuteResult(o), err |-> NoErr] :
             o \in RunOutcomes("exec") }

\* C5: in ExecuteOnNexus, Execute is invoked exactly once on every member
\* host: never twice, and once on each host by the time the call returns,
\* whatever the sibling hosts returned.
\* The step in which a host task calls Execute is a step of that task
\* alone, and what the task does with (result, err) is, for a result and
\* for every error, to go on to send (srv.ID(), result, err): it calls
\* Execute no second time and gives no outcome up.
C5_ExecuteOncePerMember ==
    /\ [](op = "ExecuteOnNexus" =>
            /\ \A i \in Tasks : execCalls[i] <= 1
            /\ ExecuteOnNexusDone => \A i \in Tasks : execCalls[i] = 1)
    /\ [][ \A i \in Tasks :
             (op = "ExecuteOnNexus" /\ execCalls'[i] # execCalls[i]) =>
                /\ tpc[i] = "call"
                /\ execCalls'[i] = execCalls[i] + 1
                /\ tpc'[i] = "send"
                /\ \A j \in Tasks \ {i} :
                      /\ execCalls'[j] = execCalls[j]
                      /\ tpc'[j] = tpc[j]
                      /\ tmsg'[j] = tmsg[j]
                      /\ xret'[j] = xret[j] ]_vars
    /\ [](\A i \in Tasks : \A o \in ExecuteOutcomes :
            /\ AfterExecute(i, o.result, o.err).pc = "send"
            /\ AfterExecute(i, o.result, o.err).msg =
                  [serverID |-> ServerID(i), result |-> o.result,
                   error |-> o.err])

\* ExecuteOnNexus returned for two hosts; the Execute of each was called
\* once and returned its result.
C5_Witness ==
    /\ ExecuteOnNexusDone
    /\ N = 2
    /\ collected = 2
    /\ \A i \in Tasks : execCalls[i] = 1 /\ xret[i] # Empty

\* Errors an Execute may return to a host task.
HostErrors == {NotConnectedErr, "context canceled"}

\* The messages a host task of ExecuteOnNexus may put on resultChan: the
\* result of its Execute, or the error of it.
OutcomeMessages ==
    { [serverID |-> ID(ConfigServers["web"]),
       result |-> MockExecute(CallCommand, CallSudo).result,
       error |-> NoErr] }
    \cup
    { [serverID |-> ID(ConfigServers["web"]), result |-> NilResult,
       error |-> e] : e \in HostErrors }

OutcomeSeqs == UNION { [1..n -> OutcomeMessages] : n \in 1..MaxMembers }

\* lastError when the collecting loop has taken the messages msgs.
RECURSIVE LastErrorAfter(_, _)
LastErrorAfter(msgs, last) ==
    IF msgs = << >> THEN last
    ELSE LastErrorAfter(Tail(msgs), CollectedError(last, Head(msgs)))

\* C6: ExecuteOnNexus returns the map built from the outcome of every
\* member host, holding a key for every member's id, with a non-nil error
\* if and only if the Execute of at least one member host returned an error:
\* in the calls the manager makes, and in what the collecting loop computes
\* from any sequence of outcomes.
C6_SummaryErrorIffSomeHostFailed ==
    /\ ExecuteOnNexusDone =>
          /\ ret.value = results
          /\ collected = N
          /\ \A i \in Tasks : ServerID(i) \in DOMAIN ret.value
          /\ (ret.err # NoErr) <=> (FailedTasks # {})
    /\ \A msgs \in OutcomeSeqs :
          LET last == LastErrorAfter(msgs, NoErr)
          IN  /\ (SummaryError(last) # NoErr)
                    <=> (\E k \in 1..Len(msgs) : msgs[k].error # NoErr)
              /\ SummaryError(last) # NoErr =>
                    \E k \in 1..Len(msgs) :
                       /\ msgs[k].error # NoErr
                       /\ SummaryError(last) =
                             "command execution failed on some servers: "
                             \o msgs[k].error

\* ExecuteOnNexus returned the map of two hosts and no error: no Execute
\* had returned one.
C6_Witness ==
    /\ ExecuteOnNexusDone
    /\ N = 2
    /\ FailedTasks = {}
    /\ ret.err = NoErr
    /\ ret.value = results
    /\ \A k \in DOMAIN ret.value : ret.value[k].ExitCode = 0

\* C7: when ExecuteOnNexus collects the outcome of a host, it stores under
\* that host's id a result with ExitCode -1 and Stderr the error's text if
\* the host's Execute returned an error, and the very result Execute
\* returned otherwise.
C7_StoredResult ==
    /\ [][ (op = "ExecuteOnNexus" /\ pc = "collect"
                /\ collected' = collected + 1)
           => LET i == Head(chanFrom)
              IN  /\ ServerID(i) \in DOMAIN results'
                  /\ results'[ServerID(i)] = CollectedResult(Head(chan))
                  /\ Head(chan).result = xret[i].result
                  /\ Head(chan).error = xret[i].err ]_vars
    /\ \A msg \in OutcomeMessages :
          IF msg.error # NoErr
          THEN /\ CollectedResult(msg).ExitCode = -1
               /\ CollectedResult(msg).Stderr = msg.error
          ELSE CollectedResult(msg) = msg.result

\* The returned map holds, under the id of a host, the very result its
\* Execute returned.
C7_Witness ==
    /\ ExecuteOnNexusDone
    /\ \E j \in Tasks :
          /\ xret[j] = MockExecute(CallCommand, CallSudo)
          /\ ret.value[ServerID(j)] = xret[j].result
          /\ ret.value[ServerID(j)].Stdout = "mock output"

\* C8: Status and ExecuteOnNexus return only after every dispatched host
\* task has finished and its outcome has been taken into the result.
C8_ReturnAfterAllTasks ==
    (pc = "done" /\ name = ConfiguredNexus) =>
        /\ launched = N
        /\ \A i \in Tasks : tpc[i] = "done"
        /\ chan = << >>
        /\ collected = N

\* Status returned for two hosts, with the outcomes of both.
C8_Witness ==
    /\ StatusDone
    /\ N = 2
    /\ collected = 2
    /\ HealthyTasks = Tasks

\* C9: if the context is canceled while host commands are in flight,
\* every host task eventually finishes and none blocks forever: a call that
\* a host task makes on its server (Execute, HealthCheck or GetResources)
\* and whose command is in flight when its context is done returns.
C9_CancelLeadsToReturn ==
    (hpc = "select" /\ hctx # NoErr) ~> (hpc = "idle")

\* Execute, called on the handle, leaves its select.
SelectReturns ==
    hcall.op = "Execute" /\ hpc = "select" /\ hpc' = "idle"

\* C10 as stated: when the context is done before Execute has returned,
\* Execute sends the kill signal and returns the context's error and no
\* result.
C10_CanceledCallNeverReturnsResult ==
    [][ (SelectReturns /\ hctx # NoErr)
        => /\ hkilled'
           /\ hret' = [result |-> NilResult, err |-> hctx] ]_vars

\* C10, amended: a return with the context's error comes with the kill
\* signal and no result; while the command has not ended, a done context is
\* the only way out of Execute; and a result is returned only for a command
\* that has ended, without a kill signal.
C10_CancelBranch ==
    [][ SelectReturns
        => \/ /\ hctx # NoErr
              /\ hkilled'
              /\ hret' = [result |-> NilResult, err |-> hctx]
           \/ /\ hdone # Empty
              /\ ~hkilled'
              /\ hret' = [result |-> ExecuteResult(hdone),
                          err |-> NoErr] ]_vars

\* Execute returned the context's error, after the kill signal, while its
\* command was still running.
C10_Witness ==
    /\ hcall.op = "Execute"
    /\ hpc = "idle"
    /\ hkilled
    /\ hout = Empty
    /\ hret = [result |-> NilResult, err |-> hctx]

\* The entry ExecuteOnNexus stores for a host whose Execute returned
\* (result, err).
StoredFor(result, err) ==
    CollectedResult([serverID |-> ID(ConfigServers["web"]),
                     result |-> result, error |-> err])

\* C11: a host whose command completed before the context was canceled
\* appears in the returned map with its real execution result, not with a
\* synthetic failure: when the command of an Execute had ended before its
\* context was canceled, the entry ExecuteOnNexus stores for what Execute
\* returned is the result of the command, and its ExitCode is not -1.
C11_CompletedHostKeepsResult ==
    (hcall.op = "Execute" /\ hpc = "idle" /\ hended) =>
        /\ StoredFor(hret.result, hret.err) = ExecuteResult(hout)
        /\ StoredFor(hret.result, hret.err).ExitCode # -1

\* The fields of the handle that say whether and how it is connected.
HandleState == << hclient, hconn, live >>

\* A step in which Execute, called on the handle, leaves its first part.
ExecuteEnters ==
    hcall.op = "Execute" /\ hpc = "call" /\ hpc' # "call"

\* A step that is a whole call of TransferFile, Connect, Disconnect.
TransferFileCalled == hpc = "idle" /\ hcall'.op = "TransferFile"

ConnectCalled == hpc = "idle" /\ hcall'.op = "Connect"

DisconnectCalled == hpc = "idle" /\ hcall'.op = "Disconnect"

\* C12: on a handle that is not connected, Execute and TransferFile return
\* the not-connected error, start no session and no transfer, and leave the
\* handle's state unchanged.
C12_NotConnectedCallsFail ==
    [][ /\ (hclient = 0 /\ ExecuteEnters) =>
              /\ hpc' = "idle"
              /\ hret' = [result |-> NilResult, err |-> NotConnectedErr]
              /\ opened' = "none"
              /\ hran' = ""
              /\ HandleState' = HandleState
        /\ (hclient = 0 /\ TransferFileCalled) =>
              /\ hret' = [err |-> NotConnectedErr]
              /\ opened' = "none"
              /\ HandleState' = HandleState ]_vars

\* TransferFile returned the not-connected error on a handle whose last
\* Connect had failed in the handshake.
C12_Witness ==
    /\ hcall.op = "TransferFile"
    /\ hclient = 0 /\ hconn # 0
    /\ hret = [err |-> NotConnectedErr]
    /\ opened = "none"

\* C13: Connect on a connected handle returns nil without dialing and
\* changes nothing, and the handle never has more than one open connection.
C13_ConnectIdempotent ==
    /\ [](Cardinality(live) <= 1)
    /\ [][ (hclient # 0 /\ ConnectCalled) =>
              /\ hret' = [err |-> NoErr]
              /\ ~dialed'
              /\ HandleState' = HandleState ]_vars

\* Connect returned on a handle that was connected before the call.
C13_Witness ==
    /\ hcall.op = "Connect"
    /\ hpc = "idle"
    /\ hclient # 0
    /\ ~dialed
    /\ hret = [err |-> NoErr]
    /\ Cardinality(live) = 1

\* C14: after Disconnect the handle is disconnected, whatever its state was
\* and whatever closing returned; on a handle that was disconnected it
\* returns nil and changes nothing.
C14_DisconnectIdempotent ==
    [][ DisconnectCalled =>
          /\ hclient' = 0
          /\ live' = {}
          /\ hclient = 0 =>
                /\ hret' = [err |-> NoErr]
                /\ HandleState' = HandleState ]_vars

\* Disconnect returned the error of closing, and the handle is disconnected.
C14_Witness ==
    /\ hcall.op = "Disconnect"
    /\ hret.err # NoErr
    /\ hclient = 0 /\ hconn = 0 /\ live = {}

\* The errors Execute returns, with or without escalation.
ExecuteErrors == {NotConnectedErr, SessionErr} \cup CtxErrors

\* C15: the command Execute runs is "sudo -n " followed by the command if
\* escalate is true and the host allows escalation, and the command itself
\* otherwise; escalate on a host that disallows it causes no error.
C15_SudoPrefixIffAllowed ==
    [][ /\ (hcall.op = "Execute" /\ hpc = "session" /\ hpc' = "select") =>
              hran' = IF hcall.sudo /\ sudoAllowed
                      THEN "sudo -n " \o hcall.cmd
                      ELSE hcall.cmd
        /\ (hcall.op = "Execute" /\ hpc # "idle" /\ hpc' = "idle") =>
              hret'.err \in {NoErr} \cup ExecuteErrors ]_vars

\* Execute with escalate on a host that disallows it ran the command as it
\* was given and returned its result.
C15_Witness ==
    /\ hcall.op = "Execute"
    /\ hcall.sudo /\ ~sudoAllowed
    /\ hpc = "idle"
    /\ hran = hcall.cmd
    /\ hret.err = NoErr
    /\ hret.result.ExitCode = 0

\* A step in which the Execute of a call of Execute returns.
ExecuteReturns ==
    hcall.op = "Execute" /\ hpc # "idle" /\ hpc' = "idle"

\* C16: when the remote command ended with a non-zero exit status and the
\* context is not done, Execute returns a result with that exit status and
\* the captured output, and a nil error.
C16_NonZeroExitIsResult ==
    [][ (/\ ExecuteReturns
         /\ hpc = "select"
         /\ hctx = NoErr
         /\ hdone # Empty
         /\ hdone.err = "exit" /\ hdone.status # 0) =>
            /\ hret'.err = NoErr
            /\ hret'.result = [ExitCode |-> hdone.status,
                               Stdout |-> hdone.stdout,
                               Stderr |-> hdone.stderr,
                               Duration |-> hdone.ms] ]_vars

\* Execute returned the result of a command that exited with status 2.
C16_Witness ==
    /\ hcall.op = "Execute"
    /\ hpc = "idle"
    /\ hout # Empty /\ hout.err = "exit"
    /\ hret.err = NoErr
    /\ hret.result.ExitCode = 2
    /\ hret.result.Stderr = "boom\n"

\* C17: Execute returns an error and no result when the command could not
\* be executed or the transport failed while it ran, and a result it
\* returns is that of a command that ran to completion.
C17_TransportFailureIsError ==
    [][ ExecuteReturns =>
          /\ (hout' # Empty /\ hout'.err = "other") =>
                /\ hret'.err # NoErr
                /\ hret'.result = NilResult
          /\ hret'.result # NilResult =>
                /\ hout' # Empty
                /\ hout'.err \in {"nil", "exit"} ]_vars

\* A step in which HealthCheck returns.
HealthCheckReturns ==
    hcall.op = "HealthCheck" /\ hpc # "idle" /\ hpc' = "idle"

\* C18: HealthCheck returns nil if and only if its Execute returned no
\* error, the exit status is 0 and the output without surrounding white
\* space is health_check.
C18_HealthCheckIffTokenEchoed ==
    [][ HealthCheckReturns =>
          (hret'.err = NoErr <=>
              /\ hx'.err = NoErr
              /\ hx'.result.ExitCode = 0
              /\ TrimSpace(hx'.result.Stdout) = "health_check") ]_vars

\* HealthCheck failed on a host that answered, with status 0, a text that
\* only begins with the token.
C18_Witness ==
    /\ hcall.op = "HealthCheck"
    /\ hpc = "idle"
    /\ hx.err = NoErr
    /\ hx.result.ExitCode = 0
    /\ hx.result.Stdout = "health_check ok\n"
    /\ hret.err = "unexpected health check response: health_check ok\n"

\* A step in which GetResources returns.
GetResourcesEnds ==
    hcall.op = "GetResources" /\ hpc # "idle" /\ hpc' = "idle"

\* The Execute of a probe returned an error, or the output of nproc is not
\* a number.
ProbeFailed(probe, r) ==
    \/ r.err # NoErr
    \/ probe = "nproc" /\ ~AtoiOk(TrimSpace(r.result.Stdout))

\* C19: GetResources returns a snapshot and no error, or an error and no
\* snapshot; and it returns an error if a probe failed to execute or its
\* output could not be parsed.
C19_AnyProbeFailureIsError ==
    [][ GetResourcesEnds =>
          /\ hret'.err = NoErr <=> hret'.info # NilResult
          /\ (\E k \in 1..Len(hrets') : ProbeFailed(Probes[k], hrets'[k]))
                => hret'.err # NoErr ]_vars

\* The entry of a healthy host whose GetResources failed.
OnlineWithoutResources ==
    [Online |-> TRUE, Resources |-> NilResult, Error |-> ""]

\* C20: in Status, a host whose HealthCheck succeeded and whose
\* GetResources failed sends, and has stored under its id, an entry with
\* Online = true, an empty Error and no resources; the entry of a host
\* whose HealthCheck succeeded is never sent or stored as offline.
C20_TelemetryFailureKeepsOnline ==
    /\ \A e \in HostErrors :
          AfterGetResources(OnlineWithoutResources, NilResult, e)
              = OnlineWithoutResources
    /\ op = "Status" =>
          /\ \A i \in Tasks :
                (hc[i] = "ok" /\ tmsg[i] # Empty) =>
                    /\ tmsg[i].status.Online
                    /\ tmsg[i].status.Error = ""
          /\ \A k \in 1..Len(chan) :
                hc[chanFrom[k]] = "ok" =>
                    /\ chan[k].status.Online
                    /\ chan[k].status.Error = ""
          /\ StatusDone =>
                \A i \in Tasks :
                   hc[i] = "ok" =>
                      /\ ret.value.ServerStatuses[ServerID(i)].Online
                      /\ ret.value.ServerStatuses[ServerID(i)].Error = ""

\* Status returned the entry of a healthy host, online and with the
\* resources GetResources returned.
C20_Witness ==
    /\ StatusDone
    /\ \E i \in Tasks :
          /\ hc[i] = "ok"
          /\ ret.value.ServerStatuses[ServerID(i)] =
                [Online |-> TRUE, Resources |-> MockGetResources.info,
                 Error |-> ""]

\* The nexus named by the call does not exist, or one of its servers is
\* missing from config.Servers, or (ExecuteOnAll) no nexus is active.
PreconditionFails ==
    /\ op # ""
    /\ \/ op = "ExecuteOnAll" /\ name = ""
       \/ name # "" /\ name \notin ConfigNexusNames
       \/ /\ name = BrokenNexus
          /\ \E i \in 1..Len(BrokenServers) : BrokenServers[i] \notin ServerNames

\* C21: Status, ExecuteOnNexus and ExecuteOnAll called on a nexus that does
\* not exist, on a nexus that refers to a server missing from the
\* configuration, or (ExecuteOnAll) with no active nexus, return an error and
\* a nil result, and no host task is started and no operation is invoked on
\* any host.  ExecuteOnAll may still be at the Get of GetCurrent.
C21_PreconditionFailureRunsNothing ==
    PreconditionFails =>
        /\ pc \in {"getcurrent", "done"}
        /\ pc = "getcurrent" => op = "ExecuteOnAll"
        /\ pc = "done" => (ret.value = NilResult /\ ret.err # NoErr)
        /\ launched = 0 /\ wg = 0 /\ closer = "none"
        /\ \A i \in Tasks :
              tpc[i] = "none" /\ execCalls[i] = 0 /\ hc[i] = "pending"

\* ExecuteOnAll has returned for an active nexus that refers to a missing
\* server.
C21_Witness ==
    /\ pc = "done"
    /\ op = "ExecuteOnAll"
    /\ name = BrokenNexus
    /\ ret = [value |-> NilResult,
              err |-> "no current nexus: failed to load servers for nexus 'edge': server 'ghost' referenced by nexus 'edge' not found"]

\* Switch has returned what the nexus name calls for: for a name
\* config.Nexuses lacks an error, with m.currentNexus as it was and no call
\* of SetCurrentNexus made (nothing else of Switch writes
\* runtime.CurrentNexus or the file), and for the
\* configured nexus either success with that name in runtime.CurrentNexus
\* and in the file, or the error of writing the file.
SwitchOutcome ==
    /\ swpc = "returned"
    /\ swname \notin ConfigNexusNames =>
          /\ swret.err # NoErr
          /\ cm["switch"] = NoConfigCall
          /\ currentNexus = swbefore
    /\ (swname = ConfiguredNexus /\ swret.err = NoErr) =>
          /\ runtimeNexus = swname
          /\ Unmarshal(runtimeFile) = [current |-> swname, err |-> NoErr]

\* C22: a call of Switch returns; for a nexus name that does not exist it
\* returns an error with the active nexus unchanged in memory and in the
\* file, and for an existing nexus it returns success with that name
\* persisted as the active nexus.
C22_SwitchReturnsAndPersists ==
    [](swpc = "get" => <>SwitchOutcome)

\* The steps an operation needs to succeed: those whose failure the code
\* tests for.  The probes, `whoami`, `usermod` and `rm -f` are not among them.
Required(entry) == entry.check \in {"both", "err"}

\* C23: in every operation of every family, once the command of a required
\* step returns an execution error or a non-zero exit status, that step is
\* the last one executed and the operation returns an error.
C23_FailedStepAborts ==
    \A i \in 1..Len(dlog) :
        (Required(dlog[i]) /\ dlog[i].out # "ok") =>
            /\ i = Len(dlog)
            /\ dpc = 0
            /\ dret.err # NoErr

\* HardenSSH has returned.
HardenSSHReturned == dop = "HardenSSH" /\ dpc = 0 /\ dret # Empty

\* The syntax check of the call ran and did not exit with status 0.
SyntaxCheckFailed ==
    \E i \in 1..Len(dlog) : dlog[i].cmd = TestCommand /\ dlog[i].out # "ok"

\* C24: in HardenSSH the restart of the daemon is executed only right after
\* the syntax check ran and exited with status 0; when the check fails,
\* HardenSSH returns an error and the restart is never issued.
C24_RestartOnlyAfterCheck ==
    /\ \A i \in 1..Len(dlog) :
          dlog[i].cmd = RestartCommand =>
              /\ i > 1
              /\ dlog[i - 1].cmd = TestCommand
              /\ dlog[i - 1].out = "ok"
    /\ (dop = "HardenSSH" /\ SyntaxCheckFailed) =>
          /\ dpc = 0
          /\ dret.err # NoErr
          /\ \A i \in 1..Len(dlog) : dlog[i].cmd # RestartCommand

\* HardenSSH returned an error after a syntax check that exited non-zero, in
\* UbuntuOperations.
C24_Witness ==
    /\ HardenSSHReturned
    /\ dfamily = "ubuntu"
    /\ dlog[Len(dlog)].cmd = TestCommand
    /\ dlog[Len(dlog)].out = "exit"
    /\ dret.err = "SSH configuration test failed: permission denied"

\* C25: when the syntax check that follows the edits fails, the content of
\* /etc/ssh/sshd_config when HardenSSH returns is the content it had before
\* HardenSSH was called.
C25_FailedCheckKeepsConfig ==
    (HardenSSHReturned /\ SyntaxCheckFailed) => sshdConfig = sshdBefore

\* The commands of a firewall tool that do what ConfigureFirewall is to do
\* around the rules.
IsReset(cmd) == cmd \in {"ufw --force reset", "firewall-cmd --complete-reload"}
IsDenyIncoming(cmd) ==
    cmd \in {"ufw default deny incoming",
             "firewall-cmd --set-default-zone=public"}
IsAllowOutgoing(cmd) ==
    cmd \in {"ufw default allow outgoing",
             "firewall-cmd --set-default-zone=public"}
IsEnable(cmd) ==
    cmd \in {"ufw --force enable", "systemctl start firewalld",
             "systemctl enable firewalld"}

\* ConfigureFirewall has returned nil.
ConfigureFirewallSucceeded ==
    dop = "ConfigureFirewall" /\ dpc = 0 /\ dret = [err |-> NoErr]

\* The commands of the call that ConfigureFirewall does not issue for an
\* empty rule list: the rule commands.
RuleCommands ==
    LET fixed == { ConfigureFirewall(dfamily, << >>)[k].cmd :
                     k \in 1..Len(ConfigureFirewall(dfamily, << >>)) }
        issued == SelectSeq(dlog, LAMBDA e : e.cmd \notin fixed)
    IN [k \in 1..Len(issued) |-> issued[k].cmd]

\* The rule commands of a rule list, rule after rule.
RECURSIVE CommandsOf(_, _)
CommandsOf(family, rules) ==
    IF rules = << >> THEN << >>
    ELSE AddFirewallRule(family, Head(rules))
            \o CommandsOf(family, Tail(rules))

\* C26: in every family and for every rule list, the empty one included, a
\* ConfigureFirewall that succeeds has reset the firewall tool and then set
\* the default-deny-incoming and allow-outgoing policies before any rule
\* command, has issued the rule commands in the order of the list, and has
\* enabled enforcement with its last command and not before.
C26_ResetRulesEnable ==
    ConfigureFirewallSucceeded =>
        LET n == Len(dlog)
            k == Len(RuleCommands)
        IN /\ RuleCommands = CommandsOf(dfamily, drules)
           /\ \A i \in 1..k : dlog[n - k - 1 + i].cmd = RuleCommands[i]
           /\ \E r, d, a \in 1..(n - k - 1) :
                 /\ r < d /\ r < a
                 /\ IsReset(dlog[r].cmd)
                 /\ IsDenyIncoming(dlog[d].cmd)
                 /\ IsAllowOutgoing(dlog[a].cmd)
           /\ IsEnable(dlog[n].cmd)
           /\ \A i \in 1..(n - 1) : ~IsEnable(dlog[i].cmd)

\* The two commands a "tcp/udp" rule stands for: the command of the rule
\* for tcp and the command of the rule for udp.
Expanded(family, rule) ==
    IF rule.Protocol = "tcp/udp"
    THEN AddFirewallRule(family, [rule EXCEPT !.Protocol = "tcp"])
            \o AddFirewallRule(family, [rule EXCEPT !.Protocol = "udp"])
    ELSE AddFirewallRule(family, rule)

RECURSIVE ExpandedCommandsOf(_, _)
ExpandedCommandsOf(family, rules) ==
    IF rules = << >> THEN << >>
    ELSE Expanded(family, Head(rules))
            \o ExpandedCommandsOf(family, Tail(rules))

\* C27: in every family, a ConfigureFirewall that succeeds has issued for
\* each rule with protocol "tcp/udp" exactly two rule commands, the rule's
\* command for tcp and the rule's command for udp, with the rule's port,
\* source and action, and one command for every other rule.
C27_TcpUdpIsTwoCommands ==
    ConfigureFirewallSucceeded =>
        RuleCommands = ExpandedCommandsOf(dfamily, drules)

\* The runtime is present and answers the version query: the two probes of
\* InstallDocker exit with status 0.
RuntimeResponds ==
    /\ dop = "InstallDocker"
    /\ Len(dlog) >= 2
    /\ dlog[1].out = "ok"
    /\ dlog[2].out = "ok"

\* C28: when the container runtime is present and answers the version query,
\* InstallDocker returns nil after these two probes, both of them run
\* without privilege, and executes nothing else; the files of the host are
\* as they were before the call, in every run.
C28_PresentRuntimeShortCircuits ==
    RuntimeResponds =>
        /\ dpc = 0
        /\ dret = [err |-> NoErr]
        /\ dlog = << [cmd |-> "which docker", sudo |-> FALSE,
                      check |-> "ifok", out |-> "ok"],
                     [cmd |-> "docker --version", sudo |-> FALSE,
                      check |-> "done", out |-> "ok"] >>
        /\ sshdConfig = sshdBefore

\* InstallDocker of RockyOperations has returned after the two probes.
C28_Witness ==
    /\ RuntimeResponds
    /\ dfamily = "rocky"
    /\ dpc = 0
    /\ dret = [err |-> NoErr]
    /\ Len(dlog) = 2

\* C29: a call of CreateServerWithDistroDetection on an identity that
\* declares a distribution makes no connection and leaves the identity as it
\* was.  When none is declared and the configuration is accepted, the call
\* connects once; detection runs on a connected handle; a call that returns
\* the server has stored what GetDistro returned in config.Distro; and
\* whenever the call has returned, with the server or with an error, the
\* handle holds no client.
C29_DetectionConnectsAndDisconnects ==
    /\ fpc = "detect" => hclient # 0
    /\ fpc = "returned" =>
          /\ hclient = 0
          /\ fbefore.Distro # "" =>
                /\ fconnects = 0
                /\ ~dialed
                /\ fconfig = fbefore
          /\ (fbefore.Distro = "" /\ CreateServerError(fbefore) = NoErr) =>
                fconnects = 1
          /\ (fbefore.Distro = "" /\ fret.server) =>
                /\ dialed
                /\ fdetected # Empty
                /\ fconfig = [fbefore EXCEPT !.Distro = fdetected.distro]

\* A call on an identity without a distribution has connected, read
\* ID="Rocky" from /etc/os-release, stored rocky and returned the server,
\* with the handle disconnected.
C29_Witness ==
    /\ fpc = "returned"
    /\ fbefore.Distro = ""
    /\ fret = [server |-> TRUE, err |-> NoErr]
    /\ fconnects = 1
    /\ fconfig.Distro = "rocky"
    /\ hclient = 0

\* C30: over the calls of CreateServerWithDistroDetection on one identity,
\* config.Distro is assigned at most once, a distribution the identity
\* declared before the first call is still there, and every other field has
\* the value it had before the first call.
C30_DistroWrittenAtMostOnce ==
    /\ fwrites <= 1
    /\ fconfig0.Distro # "" => fconfig.Distro = fconfig0.Distro
    /\ [fconfig EXCEPT !.Distro = ""] = [fconfig0 EXCEPT !.Distro = ""]

\* C31: detection is deterministic.  When GetDistro has returned a family
\* for the host, it returns that family for the same os-release text, the
\* same marker files and the same outcomes of its Executes in every order in
\* which the marker files may be tried.
C31_DetectionIsDeterministic ==
    (fpc = "disconnect" /\ fdetected.distro # "unknown") =>
        \A order \in IterationOrders :
            GetDistro(fhost.osRelease, fhost.files, order, fdetected.runs)
                = fdetected.distro

\* C32: ValidateServerConfig returns an error for a port below 0 or above
\* 65535 and for a declared distribution that is none of ubuntu, debian,
\* centos, rhel, rocky, fedora, alpine, unknown (in any letter case); it
\* returns nil for every configuration with a host, a user and a key whose
\* port and distribution are valid; and the configuration is as it was.
C32_ValidationRejectsAndAccepts ==
    vret # Empty =>
        LET portValid == fconfig.SSHPort \in 0..65535
            distroValid ==
                \/ fconfig.Distro = ""
                \/ ToLower(fconfig.Distro) \in
                      {"ubuntu", "debian", "centos", "rhel", "rocky",
                       "fedora", "alpine", "unknown"}
        IN /\ ~portValid => vret.err # NoErr
           /\ ~distroValid => vret.err # NoErr
           /\ ( /\ fconfig.Host # "" /\ fconfig.SSHUser # ""
                /\ fconfig.SSHKey # "" /\ portValid /\ distroValid )
                 => vret.err = NoErr
           /\ fconfig = fconfig0

\* A configuration with port 65536 and a supported distribution has been
\* rejected for its port.
C32_Witness ==
    /\ fconfig.SSHPort = 65536
    /\ fconfig.Distro = "rocky"
    /\ vret = [err |-> "invalid SSH port: 65536 (must be 1-65535 or 0 for default)"]

\* C33: the capability set a dispatcher selects depends on the distribution
\* identifier only.  For the identifier a dispatcher was called with, all
\* six dispatchers select the same thing; ubuntu selects the Ubuntu set,
\* debian the Debian set, rocky, rhel, centos and fedora the Rocky set, in
\* any letter case; and for every other identifier the dispatcher has
\* returned "unsupported distribution: <identifier>" and no command was
\* given to the host.
C33_SelectionByIdentifierAlone ==
    pdispatcher # "" =>
        LET id == ToLower(pdistro)
            sel == SelectOperations(pdispatcher, pdistro)
        IN /\ \A other \in Dispatchers :
                  SelectOperations(other, pdistro) = sel
           /\ id = "ubuntu" => dfamily = "ubuntu" /\ dop # ""
           /\ id = "debian" => dfamily = "debian" /\ dop # ""
           /\ id \in {"rocky", "rhel", "centos", "fedora"} =>
                  dfamily = "rocky" /\ dop # ""
           /\ id \notin {"ubuntu", "debian", "rocky", "rhel", "centos",
                         "fedora"} =>
                  /\ dret = [err |-> "unsupported distribution: " \o pdistro]
                  /\ dlog = << >>
                  /\ dpc = 0
                  /\ dop = ""

\* hardenSSH was called for fedora, selected the Rocky set and has given a
\* command to the host.
C33_Witness ==
    /\ pdispatcher = "hardenSSH"
    /\ pdistro = "fedora"
    /\ dfamily = "rocky"
    /\ dop = "HardenSSH"
    /\ dlog # << >>

\* C34: when every host operation returns, a call of Status or
\* ExecuteOnNexus that has passed Get returns.  A host task that is to
\* deliver its outcome finds room in the channel; the channel is closed
\* only when every one of the N host tasks has delivered and finished; and
\* the call returns with all N outcomes collected.
C34_CallTerminates ==
    /\ [](\A i \in 1..MaxMembers :
             (i \in Tasks /\ tpc[i] = "send") => Len(chan) < N)
    /\ [](chanClosed =>
             \A i \in 1..MaxMembers : i \in Tasks => tpc[i] = "done")
    /\ (pc \in {"dispatch", "collect"})
          ~> (pc = "done" /\ chanClosed /\ collected = N /\ chan = << >>)

\* ExecuteOnNexus on two hosts returned, with both outcomes collected, on a
\* context that was never canceled.
C34_Witness ==
    /\ ExecuteOnNexusDone
    /\ ctxErr = NoErr
    /\ N = 2
    /\ collected = 2
    /\ chanClosed

\* C35: a call of Switch that has taken the manager's lock and is to
\* validate the name through Get returns, with success or with an error.
C35_SwitchNeverDeadlocks ==
    (swpc = "get" /\ mu = "write") ~> (swpc = "returned" /\ mu = "free")

\* C36: in initializeServer, the handle is connected at the health check
\* and at each provisioning step that runs an operation on the host.
C36_StepsRunConnected ==
    \A k \in 1..Len(ilog) : ilog[k].connected

\* C37: for a configuration whose declared distribution ValidateServerConfig
\* has accepted, GetDistroInfo returns a description and a dispatcher
\* selects a capability set: neither returns "unsupported distribution".
C37_ValidatedDistroIsProvisioned ==
    (vret = [err |-> NoErr] /\ fconfig.Distro # "") =>
        /\ pinfo # Empty => pinfo.err = NoErr
        /\ pdispatcher # "" =>
              dret # [err |-> "unsupported distribution: " \o pdistro]

\* A command that opens the port, for every source or for one.
OpensPort(cmd, port) ==
    \/ HasPrefix(cmd, "ufw allow " \o Itoa(port) \o "/")
    \/ /\ HasPrefix(cmd, "ufw allow from ")
       /\ Index(cmd, " to any port " \o Itoa(port) \o " ") # 0
    \/ HasPrefix(cmd, "firewall-cmd --add-port=" \o Itoa(port) \o "/")
    \/ /\ HasPrefix(cmd, "firewall-cmd --add-rich-rule=")
       /\ Index(cmd, "port=\"" \o Itoa(port) \o "\" accept") # 0

\* C38: in ConfigureFirewall of every family, no command given to the host
\* opens or allows the port of a rule whose action is deny.
C38_DenyRuleNeverOpensPort ==
    dop = "ConfigureFirewall" =>
        \A k \in 1..Len(dlog), j \in 1..Len(drules) :
            drules[j].Action = "deny" =>
                ~OpensPort(dlog[k].cmd, drules[j].Port)

\* The last call on the handle was a Connect that returned an error.
ConnectFailed == hcall.op = "Connect" /\ hret.err # NoErr

\* C39: after a Connect that returned an error, at whichever step it
\* failed, the handle has no client and no connection of it is open; and
\* the Connect called next does not return as already connected: it fails
\* again or it dials and leaves the handle connected.
C39_FailedConnectStaysDisconnected ==
    [][ /\ ConnectFailed' => (hclient' = 0 /\ live' = {})
        /\ (ConnectFailed /\ hcall'.op = "Connect") =>
              \/ hret'.err # NoErr
              \/ dialed' /\ hclient' # 0 /\ hclient' \in live' ]_vars

\* A Connect failed in the handshake: the connection it dialed is closed
\* and the handle has no client.
C39_Witness ==
    /\ hcall.op = "Connect"
    /\ hret = [err |-> "failed to establish SSH connection: EOF"]
    /\ dialed
    /\ hclient = 0
    /\ live = {}

\* C40: when SetCurrentNexus has returned an error, GetCurrentNexus (and
\* with it GetCurrent) reports the nexus that was current before the call.
\* The call is the only one made on the config manager: no
\* LoadRuntimeConfig and no Switch has been called.
C40_FailedSetKeepsCurrent ==
    (/\ cm["set"].pc = "returned" /\ cm["set"].err # NoErr
     /\ cm["load"].pc = "idle" /\ cm["switch"].pc = "idle") =>
        /\ runtimeNexus = cm["set"].before
        /\ GetCurrentError(runtimeNexus) = GetCurrentError(cm["set"].before)

=============================================================================
